---- MODULE Spec2Model ----
(***************************************************************************)
(* Y86-64 sequential simulator (cloudingyu/Y86-PJ-Simulator).              *)
(*                                                                         *)
(* The model follows src/cpu.cpp (the build without the cache) and         *)
(* src/unnamed/part_002 (the build with the cache): the architectural      *)
(* state, the six phases of one instruction, the run loop and the emitted  *)
(* records.  A C++ `long long` is kept at its full width of 64 bits: it is *)
(* a tuple of four 16-bit limbs, least significant limb first, and all     *)
(* arithmetic on it is arithmetic modulo 2^64.                             *)
(***************************************************************************)
EXTENDS Integers, Sequences, FiniteSets, TLC

(***************************************************************************)
(* Program constants                                                       *)
(***************************************************************************)
MEM_SIZE == 65536

HALT   == 0
NOP    == 1
RRMOVQ == 2
IRMOVQ == 3
RMMOVQ == 4
MRMOVQ == 5
OPQ    == 6
JXX    == 7
CALL   == 8
RET    == 9
PUSHQ  == 10
POPQ   == 11

RAX  == 0
RCX  == 1
RDX  == 2
RBX  == 3
RSP  == 4
NONE == 15

AOK == 1
HLT == 2
ADR == 3
INS == 4

CACHE_SETS == 16
BLOCK_SIZE == 32
BLOCK_BITS == 5

(***************************************************************************)
(* long long: 64-bit two's complement, four 16-bit limbs <<w0,w1,w2,w3>>,  *)
(* value = w0 + 2^16 w1 + 2^32 w2 + 2^48 w3 (mod 2^64, top bit = sign).    *)
(***************************************************************************)
Limb == 256 * 256
HalfLimb == 128 * 256

LLZero == <<0, 0, 0, 0>>
LLMin  == <<0, 0, 0, HalfLimb>>
LLMax  == <<Limb - 1, Limb - 1, Limb - 1, HalfLimb - 1>>

\* wrap-around addition, as the builds compute b + a (ripple carry)
LLAdd(x, y) ==
    LET s1 == x[1] + y[1]
        s2 == x[2] + y[2] + (s1 \div Limb)
        s3 == x[3] + y[3] + (s2 \div Limb)
        s4 == x[4] + y[4] + (s3 \div Limb)
    IN  <<s1 % Limb, s2 % Limb, s3 % Limb, s4 % Limb>>

LLNot(x) == <<Limb - 1 - x[1], Limb - 1 - x[2], Limb - 1 - x[3], Limb - 1 - x[4]>>

\* wrap-around subtraction x - y = x + ~y + 1
LLSub(x, y) == LLAdd(LLAdd(x, LLNot(y)), <<1, 0, 0, 0>>)

\* a non-negative int below 2^31 as a long long
LL(n) == <<n % Limb, (n \div Limb) % Limb, 0, 0>>

\* a negative int above -2^31 as a long long
LLNegOf(n) == LLSub(LLZero, LL(n))

RECURSIVE BitAnd(_, _)
BitAnd(a, b) ==
    IF a = 0 \/ b = 0 THEN 0
    ELSE (a % 2) * (b % 2) + 2 * BitAnd(a \div 2, b \div 2)

RECURSIVE BitXor(_, _)
BitXor(a, b) ==
    IF a = 0 THEN b
    ELSE IF b = 0 THEN a
    ELSE ((a + b) % 2) + 2 * BitXor(a \div 2, b \div 2)

LLAnd(x, y) == <<BitAnd(x[1], y[1]), BitAnd(x[2], y[2]), BitAnd(x[3], y[3]), BitAnd(x[4], y[4])>>
LLXor(x, y) == <<BitXor(x[1], y[1]), BitXor(x[2], y[2]), BitXor(x[3], y[3]), BitXor(x[4], y[4])>>

\* signed comparisons
LLIsNeg(x)  == x[4] >= HalfLimb
LLIsZero(x) == x = LLZero
LLIsPos(x)  == ~LLIsNeg(x) /\ ~LLIsZero(x)

\* x < y as signed 64-bit values
LLLess(x, y) ==
    IF LLIsNeg(x) # LLIsNeg(y) THEN LLIsNeg(x)
    ELSE \/ x[4] < y[4]
         \/ x[4] = y[4] /\ x[3] < y[3]
         \/ x[4] = y[4] /\ x[3] = y[3] /\ x[2] < y[2]
         \/ x[4] = y[4] /\ x[3] = y[3] /\ x[2] = y[2] /\ x[1] < y[1]

\* the int value of a long long known to lie in [0, 2^31)
LLInt(x) == x[1] + Limb * x[2]

\* 0 <= x < 2^31, so that LLInt(x) is its value
LLSmall(x) == x[3] = 0 /\ x[4] = 0 /\ x[2] < HalfLimb

\* (val >> (i * 8)) & 0xFF for i in 0..7
LLByte(val, i) == (val[(i \div 2) + 1] \div (IF i % 2 = 0 THEN 1 ELSE 256)) % 256

\* OR of byte[i] << (i * 8) over i in 0..7, bytes given as a function on 0..7
LLFromBytes(b) ==
    <<b[0] + 256 * b[1], b[2] + 256 * b[3], b[4] + 256 * b[5], b[6] + 256 * b[7]>>

(***************************************************************************)
(* Byte memory.  std::vector<uint8_t> of MEM_SIZE zero bytes; the model    *)
(* keeps the bytes that are not zero: memory is a function from the        *)
(* addresses of the non-zero bytes to their values, every other byte of    *)
(* [0, MEM_SIZE) is 0.                                                     *)
(***************************************************************************)
MemGet(m, a) == IF a \in DOMAIN m THEN m[a] ELSE 0

MemPut(m, a, v) ==
    IF v = 0 THEN [x \in DOMAIN m \ {a} |-> m[x]]
    ELSE [x \in DOMAIN m \cup {a} |-> IF x = a THEN v ELSE m[x]]

EmptyMemory == [x \in {} |-> 0]

\* bytes an access outside the vector may deliver (the read is undefined)
OobBytes == {0, 255}

(***************************************************************************)
(* Cache of the cache-enabled build: CACHE_SETS lines of BLOCK_SIZE bytes. *)
(* cs is the record [cache, hits, misses].                                 *)
(***************************************************************************)
EmptyCache ==
    [s \in 0..(CACHE_SETS - 1) |->
        [valid |-> FALSE, tag |-> 0, block |-> [i \in 0..(BLOCK_SIZE - 1) |-> 0]]]

loadBlockToCache(m, c, set_index, tag) ==
    LET block_start_addr == tag * (2 ^ (BLOCK_BITS + 4)) + set_index * (2 ^ BLOCK_BITS)
    IN  [c EXCEPT ![set_index] =
            [valid |-> TRUE,
             tag   |-> tag,
             block |-> [i \in 0..(BLOCK_SIZE - 1) |->
                          IF block_start_addr + i < MEM_SIZE
                          THEN MemGet(m, block_start_addr + i) ELSE 0]]]

readByteCached(m, cs, addr) ==
    LET set_index == (addr \div (2 ^ BLOCK_BITS)) % CACHE_SETS
        tag       == addr \div (2 ^ (BLOCK_BITS + 4))
        offset    == addr % BLOCK_SIZE
        line      == cs.cache[set_index]
    IN  IF line.valid /\ line.tag = tag
        THEN [byte |-> line.block[offset],
              cs   |-> [cs EXCEPT !.hits = @ + 1]]
        ELSE LET c2 == loadBlockToCache(m, cs.cache, set_index, tag)
             IN  [byte |-> c2[set_index].block[offset],
                  cs   |-> [cache |-> c2, hits |-> cs.hits, misses |-> cs.misses + 1]]

\* variant: a write hit leaves the cached block as it was
writeByteCached_noBlockUpdate(m, cs, addr, val) ==
    LET m2        == MemPut(m, addr, val)
        set_index == (addr \div (2 ^ BLOCK_BITS)) % CACHE_SETS
        tag       == addr \div (2 ^ (BLOCK_BITS + 4))
        line      == cs.cache[set_index]
    IN  IF line.valid /\ line.tag = tag
        THEN [memory |-> m2,
              cs |-> [cache |-> cs.cache, hits |-> cs.hits + 1, misses |-> cs.misses]]
        ELSE [memory |-> m2,
              cs |-> [cache  |-> loadBlockToCache(m2, cs.cache, set_index, tag),
                      hits   |-> cs.hits,
                      misses |-> cs.misses + 1]]

writeByteCached(m, cs, addr, val) ==
    LET m2        == MemPut(m, addr, val)
        set_index == (addr \div (2 ^ BLOCK_BITS)) % CACHE_SETS
        tag       == addr \div (2 ^ (BLOCK_BITS + 4))
        offset    == addr % BLOCK_SIZE
        line      == cs.cache[set_index]
    IN  IF line.valid /\ line.tag = tag
        THEN [memory |-> m2,
              cs |-> [cache  |-> [cs.cache EXCEPT ![set_index].block[offset] = val],
                      hits   |-> cs.hits + 1,
                      misses |-> cs.misses]]
        ELSE [memory |-> m2,
              cs |-> [cache  |-> loadBlockToCache(m2, cs.cache, set_index, tag),
                      hits   |-> cs.hits,
                      misses |-> cs.misses + 1]]

(***************************************************************************)
(* readLong / writeLong.  Both return the set of outcomes the call can     *)
(* have: [val, adr, memory, cs, oob, crash] where adr says that stat was   *)
(* set to ADR, oob that a byte outside the vector was accessed and crash   *)
(* that the process died in the access.                                    *)
(*                                                                         *)
(* The guard is `addr < 0 || addr + 8 > MEM_SIZE` on long long.  For       *)
(* addr > LLONG_MAX - 8 the sum overflows, which is undefined: a build     *)
(* that folds the comparison to addr > MEM_SIZE - 8 takes the ADR branch,  *)
(* a build that wraps gets a negative sum and goes on to index the vector. *)
(***************************************************************************)
BoundsCheckFails(addr) ==
    IF LLIsNeg(addr) THEN {TRUE}
    ELSE IF LLLess(LLSub(LLMax, LL(8)), addr) THEN {TRUE, FALSE}
    ELSE {LLLess(LL(MEM_SIZE), LLAdd(addr, LL(8)))}

\* the aligned-agnostic little-endian read of 8 bytes straight from the vector
WordAt(m, a) == LLFromBytes([i \in 0..7 |-> MemGet(m, a + i)])

RECURSIVE readLongCachedLoop(_, _, _, _, _)
readLongCachedLoop(m, cs, a, i, bytes) ==
    IF i = 8 THEN [val |-> LLFromBytes(bytes), cs |-> cs]
    ELSE LET r == readByteCached(m, cs, a + i)
         IN  readLongCachedLoop(m, r.cs, a, i + 1, [bytes EXCEPT ![i] = r.byte])

\* outcomes of indexing the vector far outside its bounds
OobAccess(m, cs) ==
    {[val |-> LLZero, adr |-> FALSE, memory |-> m, cs |-> cs, oob |-> TRUE, crash |-> TRUE]}
    \cup {[val |-> LLFromBytes([i \in 0..7 |-> g]), adr |-> FALSE, memory |-> m,
           cs |-> cs, oob |-> TRUE, crash |-> FALSE] : g \in OobBytes}

readLong(bld, m, cs, addr) ==
    UNION {
        IF fails
        THEN {[val |-> LLZero, adr |-> TRUE, memory |-> m, cs |-> cs,
               oob |-> FALSE, crash |-> FALSE]}
        ELSE IF ~LLSmall(addr) THEN OobAccess(m, cs)
        ELSE IF bld = "cached"
             THEN LET r == readLongCachedLoop(m, cs, LLInt(addr), 0, [i \in 0..7 |-> 0])
                  IN  {[val |-> r.val, adr |-> FALSE, memory |-> m, cs |-> r.cs,
                        oob |-> FALSE, crash |-> FALSE]}
             ELSE {[val |-> WordAt(m, LLInt(addr)), adr |-> FALSE, memory |-> m,
                    cs |-> cs, oob |-> FALSE, crash |-> FALSE]}
        : fails \in BoundsCheckFails(addr)}

RECURSIVE writeLongPlainLoop(_, _, _, _)
writeLongPlainLoop(m, a, val, i) ==
    IF i = 8 THEN m
    ELSE writeLongPlainLoop(MemPut(m, a + i, LLByte(val, i)), a, val, i + 1)

RECURSIVE writeLongCachedLoop(_, _, _, _, _)
writeLongCachedLoop(m, cs, a, val, i) ==
    IF i = 8 THEN [memory |-> m, cs |-> cs]
    ELSE LET r == writeByteCached(m, cs, a + i, LLByte(val, i))
         IN  writeLongCachedLoop(r.memory, r.cs, a, val, i + 1)

writeLong(bld, m, cs, addr, val) ==
    UNION {
        IF fails
        THEN {[val |-> LLZero, adr |-> TRUE, memory |-> m, cs |-> cs,
               oob |-> FALSE, crash |-> FALSE]}
        ELSE IF ~LLSmall(addr)
        THEN {[val |-> LLZero, adr |-> FALSE, memory |-> m, cs |-> cs,
               oob |-> TRUE, crash |-> c] : c \in BOOLEAN}
        ELSE IF bld = "cached"
             THEN LET r == writeLongCachedLoop(m, cs, LLInt(addr), val, 0)
                  IN  {[val |-> LLZero, adr |-> FALSE, memory |-> r.memory, cs |-> r.cs,
                        oob |-> FALSE, crash |-> FALSE]}
             ELSE {[val |-> LLZero, adr |-> FALSE,
                    memory |-> writeLongPlainLoop(m, LLInt(addr), val, 0),
                    cs |-> cs, oob |-> FALSE, crash |-> FALSE]}
        : fails \in BoundsCheckFails(addr)}

(***************************************************************************)
(* Program images.  An image is the sequence of the data lines of the      *)
(* input text, each line [addr, bytes] after the hexadecimal text has been *)
(* turned into numbers.  The encoders follow the instruction format table. *)
(***************************************************************************)
EncV(v) == [i \in 1..8 |-> LLByte(v, i - 1)]

I_halt               == <<HALT * 16>>
I_nop                == <<NOP * 16>>
I_rrmovq(fn, ra, rb) == <<RRMOVQ * 16 + fn, ra * 16 + rb>>
I_irmovq(v, rb)      == <<IRMOVQ * 16, NONE * 16 + rb>> \o EncV(v)
I_rmmovq(ra, d, rb)  == <<RMMOVQ * 16, ra * 16 + rb>> \o EncV(d)
I_mrmovq(d, rb, ra)  == <<MRMOVQ * 16, ra * 16 + rb>> \o EncV(d)
I_opq(fn, ra, rb)    == <<OPQ * 16 + fn, ra * 16 + rb>>
I_jxx(fn, dest)      == <<JXX * 16 + fn>> \o EncV(dest)
I_call(dest)         == <<CALL * 16>> \o EncV(dest)
I_ret                == <<RET * 16>>
I_pushq(ra)          == <<PUSHQ * 16, ra * 16 + NONE>>
I_popq(ra)           == <<POPQ * 16, ra * 16 + NONE>>

RECURSIVE Flatten(_)
Flatten(ss) == IF ss = <<>> THEN <<>> ELSE Head(ss) \o Flatten(Tail(ss))

\* one data line at address 0 holding the instructions one after the other
ProgramAt0(instrs) == <<[addr |-> 0, bytes |-> Flatten(instrs)]>>

\* operands of the ALU cases
AluVals == {LLZero, LL(1), LLNegOf(1), LLMin, LLMax}

\* base addresses of the memory cases: inside, at the last word, across the
\* end, past the end, negative, and within 8 of the largest long long
AddrVals == {LL(256), LL(259), LL(MEM_SIZE - 8), LL(MEM_SIZE - 7), LL(MEM_SIZE),
             LLNegOf(1), LLNegOf(8), LLSub(LLMax, LL(7)), LLMax}

\* irmovq a,%rax ; irmovq b,%rbx ; OPq %rax,%rbx ; halt     (fn 4 is not an ALU op)
AluImages ==
    {ProgramAt0(<<I_irmovq(a, RAX), I_irmovq(b, RBX), I_opq(fn, RAX, RBX), I_halt>>)
        : <<a, b, fn>> \in AluVals \X AluVals \X (0..4)}

\* the instructions with a Memory phase, with %rsp as base and stack pointer
MemInstrs ==
    {I_rmmovq(RAX, LLZero, RSP), I_mrmovq(LLZero, RSP, RAX), I_mrmovq(LL(1), RSP, RBX),
     I_pushq(RAX), I_pushq(RSP), I_popq(RAX), I_popq(RSP), I_call(LL(64)), I_ret}

\* irmovq a,%rax ; irmovq b,%rsp ; <memory instruction> ; nop ; halt ... halt at 64
MemImages ==
    {<<[addr |-> 0, bytes |-> Flatten(<<I_irmovq(a, RAX), I_irmovq(b, RSP), t, I_nop, I_halt>>)],
       [addr |-> 64, bytes |-> I_halt],
       [addr |-> 256, bytes |-> EncV(LL(64))]>>
        : <<a, b, t>> \in {LLNegOf(1), LL(4660)} \X AddrVals \X MemInstrs}

\* instructions whose bytes reach or cross the end of memory, entered by a jump
EndInstrs ==
    {I_halt, I_nop, I_rrmovq(0, RAX, RCX), I_irmovq(LL(7), RAX),
     I_rmmovq(RAX, LL(512), RCX), I_mrmovq(LL(512), RCX, RAX), I_opq(0, RAX, RCX),
     I_jxx(0, LL(64)), I_jxx(4, LL(64)), I_call(LL(64)), I_ret, I_pushq(RAX), I_popq(RAX),
     <<12 * 16>>}

EndAddrs == {MEM_SIZE - 10, MEM_SIZE - 9, MEM_SIZE - 8, MEM_SIZE - 2, MEM_SIZE - 1}

EndImages ==
    {<<[addr |-> 0, bytes |-> Flatten(<<I_irmovq(LL(1024), RSP), I_jxx(0, LL(p))>>)],
       [addr |-> 64, bytes |-> I_halt],
       [addr |-> p, bytes |-> t]>>
        : <<p, t>> \in EndAddrs \X EndInstrs}

\* control transfers: targets inside and outside [0, MEM_SIZE), a loop, and
\* the conditions under the flags of a preceding subq
JumpTargets == {LL(64), LL(MEM_SIZE), LLNegOf(1), LLMax, LLZero}

JumpImages ==
    {<<[addr |-> 0, bytes |-> Flatten(<<I_irmovq(LL(1024), RSP), t>>)],
       [addr |-> 64, bytes |-> Flatten(<<I_ret, I_halt>>)]>>
        : t \in {I_jxx(0, d) : d \in JumpTargets} \cup {I_call(d) : d \in JumpTargets}}
    \cup
    {<<[addr |-> 0, bytes |-> Flatten(<<I_irmovq(LL(1024), RSP), I_irmovq(d, RAX),
                                        I_pushq(RAX), I_ret>>)],
       [addr |-> 64, bytes |-> I_halt]>>
        : d \in JumpTargets}

CondImages ==
    {ProgramAt0(<<I_irmovq(a, RAX), I_irmovq(b, RBX), I_opq(1, RAX, RBX), t, I_halt>>)
        : <<a, b, t>> \in {LLZero, LL(1), LLMin} \X {LLZero, LL(1), LLMin}
                          \X ({I_rrmovq(fn, RAX, RCX) : fn \in {0, 1, 6, 7}}
                              \cup {I_jxx(fn, LL(64)) : fn \in {2, 3, 4, 5}})}

\* the first bytes are no instruction, or the image is empty
OtherImages ==
    {<<[addr |-> 0, bytes |-> <<c * 16 + 1>>]>> : c \in 12..15}
    \cup {<<>>, ProgramAt0(<<I_halt>>),
          <<[addr |-> MEM_SIZE - 2, bytes |-> <<NOP * 16 + 2, NOP * 16 + 3, NOP * 16 + 4>>],
            [addr |-> MEM_SIZE + 4, bytes |-> <<255>>]>>}

\* irmovq $0x8000000000000000,%rax ; irmovq $-1,%rbx ; subq %rbx,%rax ; halt
S3Image ==
    ProgramAt0(<<I_irmovq(LLMin, RAX), I_irmovq(LLNegOf(1), RBX), I_opq(1, RBX, RAX), I_halt>>)

\* prog1.yo: irmovq $10,%rdx ; irmovq $3,%rax ; nop ; nop ; nop ;
\* addq %rdx,%rax ; halt, one data line per instruction
S1Image ==
    <<[addr |-> 0,  bytes |-> <<48, 242, 10, 0, 0, 0, 0, 0, 0, 0>>],
      [addr |-> 10, bytes |-> <<48, 240, 3, 0, 0, 0, 0, 0, 0, 0>>],
      [addr |-> 20, bytes |-> <<16>>],
      [addr |-> 21, bytes |-> <<16>>],
      [addr |-> 22, bytes |-> <<16>>],
      [addr |-> 23, bytes |-> <<96, 32>>],
      [addr |-> 25, bytes |-> <<0>>]>>

ScenarioImages == {S3Image, S1Image}

\* values stored and loaded: bytes 01 02 .. 07 88, INT64_MIN, and 0
StoreVals == {<<513, 1027, 1541, 34823>>, LLMin, LLZero}

\* <<base, displacement>> of the word stored: aligned, misaligned, across two
\* cache blocks, the last word of memory, a negative displacement, the start
\* of the program, and the bytes of the program's own mrmovq and halt
StoreAddrs == {<<LL(256), LLZero>>, <<LL(259), LLZero>>, <<LL(280), LL(3)>>,
               <<LL(MEM_SIZE - 8), LLZero>>, <<LL(MEM_SIZE), LLNegOf(8)>>,
               <<LLZero, LLZero>>, <<LL(36), LLZero>>}

\* irmovq v,%rax ; irmovq base,%rcx ; [mrmovq d(%rcx),%rdx ;]
\* rmmovq %rax,d(%rcx) ; mrmovq d(%rcx),%rbx ; halt
RoundTripImages ==
    {ProgramAt0(<<I_irmovq(v, RAX), I_irmovq(bd[1], RCX)>> \o
                (IF pl THEN <<I_mrmovq(bd[2], RCX, RDX)>> ELSE <<>>) \o
                <<I_rmmovq(RAX, bd[2], RCX), I_mrmovq(bd[2], RCX, RBX), I_halt>>)
        : <<v, bd, pl>> \in StoreVals \X StoreAddrs \X BOOLEAN}

\* stack pointers of the push/pop cases: inside, misaligned, the push lands on
\* the program's first bytes, the push lands on the last word of memory
StackTops == {LL(1024), LL(259), LL(8), LL(MEM_SIZE)}

\* irmovq $0x8807060504030201,%rax ; irmovq s,%rsp ; pushq r ; popq r' ; halt
PushPopImages ==
    {ProgramAt0(<<I_irmovq(<<513, 1027, 1541, 34823>>, RAX), I_irmovq(sp, RSP),
                  I_pushq(r), I_popq(q), I_halt>>)
        : <<sp, r, q>> \in StackTops \X {RAX, RSP, 14} \X {RAX, RBX, RSP, 14}}

\* irmovq s,%rsp ; call 64 ; halt   and at 64:  <body> ; ret ; halt
\* the body is empty, a nop, a push and a pop below the return address, or a
\* store over the return address
CallRetImages ==
    {<<[addr |-> 0, bytes |-> Flatten(<<I_irmovq(sp, RSP), I_call(LL(64)), I_halt>>)],
       [addr |-> 64, bytes |-> Flatten(body \o <<I_ret, I_halt>>)]>>
        : <<sp, body>> \in StackTops \X {<<>>, <<I_nop>>, <<I_pushq(RSP), I_popq(RBX)>>,
                                          <<I_rmmovq(RAX, LLZero, RSP)>>}}

\* <<fn, a, b>> of an OPq that leaves each combination of flags an OPq can
\* leave: ZF ; ZF OF ; SF OF ; OF ; SF ; none
FlagSetters == {<<0, LLZero, LLZero>>, <<0, LLMin, LLMin>>, <<0, LL(1), LLMax>>,
                <<1, LL(1), LLMin>>, <<1, LL(1), LLZero>>, <<0, LL(1), LLZero>>}

\* irmovq $0x1234,%rdx ; irmovq a,%rax ; irmovq b,%rbx ; OPq %rax,%rbx ;
\* cmovXX %rdx,%rcx or jXX 64 with every ifun ; halt
CondAllImages ==
    {ProgramAt0(<<I_irmovq(LL(4660), RDX), I_irmovq(f[2], RAX), I_irmovq(f[3], RBX),
                  I_opq(f[1], RAX, RBX), t, I_halt>>)
        : <<f, t>> \in FlagSetters
                       \X ({I_rrmovq(fn, RDX, RCX) : fn \in 0..15}
                           \cup {I_jxx(fn, LL(64)) : fn \in 0..15})}

\* instructions whose register specifier is 0xF where a register is expected
NoneInstrs ==
    {I_irmovq(LL(7), NONE), I_opq(0, NONE, RAX), I_opq(1, RAX, NONE), I_opq(0, NONE, NONE),
     I_rrmovq(0, NONE, RAX), I_rrmovq(0, RAX, NONE),
     I_rmmovq(NONE, LL(512), RBX), I_rmmovq(RAX, LL(512), NONE),
     I_mrmovq(LLZero, RBX, NONE), I_mrmovq(LLZero, NONE, RCX),
     I_pushq(NONE), I_popq(NONE)}

\* irmovq $0x8807060504030201,%rax ; irmovq $0x400,%rsp ; irmovq $8,%rbx ;
\* <instruction> ; halt
NoneImages ==
    {ProgramAt0(<<I_irmovq(<<513, 1027, 1541, 34823>>, RAX), I_irmovq(LL(1024), RSP),
                  I_irmovq(LL(8), RBX), t, I_halt>>)
        : t \in NoneInstrs}

\* every first byte: icode 0..15 with ifun 0..15, followed by the specifier
\* of %rax and %rbx and the constant 64
FirstByteImages ==
    {ProgramAt0(<<<<c * 16 + f, RAX * 16 + RBX>>, EncV(LL(64))>>) : <<c, f>> \in (0..15) \X (0..15)}

\* jmp to its own address, at 0 and after an irmovq
LoopImages ==
    {ProgramAt0(<<I_jxx(0, LLZero)>>),
     ProgramAt0(<<I_irmovq(LL(1), RAX), I_jxx(0, LL(10))>>)}

\* irmovq a,%rbx ; irmovq b,%rax ; [nop ;] OPq %rax,%rbx ; halt   with fn not an ALU op
StaleImages ==
    {ProgramAt0(<<I_irmovq(a, RBX), I_irmovq(b, RAX)>> \o
                (IF gap THEN <<I_nop>> ELSE <<>>) \o
                <<I_opq(fn, RAX, RBX), I_halt>>)
        : <<a, b, fn, gap>> \in {LL(1), LLNegOf(1)} \X {LLZero, LL(5), LLMin} \X {4, 9, 15} \X BOOLEAN}

\* irmovq $0x8807060504030201,%rax ; rmmovq %rax,A ; mrmovq A+512,%rbx ;
\* rmmovq %rax,A+512 ; mrmovq A,%rcx ; halt      A and A+512 share a cache set
CacheImages ==
    {ProgramAt0(<<I_irmovq(<<513, 1027, 1541, 34823>>, RAX),
                  I_rmmovq(RAX, LL(a), NONE), I_mrmovq(LL(a + 512), NONE, RBX),
                  I_rmmovq(RAX, LL(a + 512), NONE), I_mrmovq(LL(a), NONE, RCX), I_halt>>)
        : a \in {256, 283}}

Images == CacheImages \cup StaleImages \cup AluImages \cup MemImages \cup EndImages \cup JumpImages \cup CondImages
          \cup OtherImages \cup ScenarioImages \cup RoundTripImages \cup PushPopImages
          \cup CallRetImages \cup CondAllImages \cup NoneImages \cup FirstByteImages
          \cup LoopImages

(***************************************************************************)
(* Bound of the model: the number of records after which no further        *)
(* instruction is started (a program may loop for ever).                   *)
(***************************************************************************)
MaxSteps == 7

(***************************************************************************)
(* State                                                                   *)
(***************************************************************************)
VARIABLES
    image,          \* the input: the data lines read by loadProgram
    build,          \* "plain" (src/cpu.cpp) or "cached" (the cache-enabled build)
    pos,            \* position of main()/run()
    PC, memory, reg, zf, sf, of, stat,
    icode, ifun, rA, rB, valC, valP, valA, valB, valE, valM, cnd,
    cache, cache_hits, cache_misses,
    isFirst,
    out,            \* the records written so far
    plainOut,       \* the records the plain build wrote for the same image
    pre,            \* history: architectural state when the current step began
    acc,            \* history: the access of the current step's Memory phase
    fstat,          \* history: stat as the current step's Fetch left it
    oob,            \* history: the <<step, phase>> that accessed a byte outside the vector
    plainOob,       \* history: oob at the end of the plain build's run
    lastStore,      \* history: the latest 8-byte store of a Memory phase
    lastCall,       \* history: the latest store of a call
    nfetch,         \* history: the number of calls of fetch() in this run
    icodes          \* history: icode after each call of fetch() in this run

archVars  == <<PC, memory, reg, zf, sf, of, stat>>
tempVars  == <<icode, ifun, rA, rB, valC, valP, valA, valB, valE, valM, cnd>>
cacheVars == <<cache, cache_hits, cache_misses>>
ioVars    == <<image, build, isFirst, out, plainOut>>
histVars  == <<pre, acc, fstat, oob, plainOob, lastStore, lastCall, nfetch, icodes>>
vars      == <<pos, archVars, tempVars, cacheVars, ioVars, histVars>>

NoAcc == [kind |-> "none", addr |-> LLZero]

\* no store yet;  otherwise the storing instruction, the address and value it
\* gave to writeLong, and the state and temporaries it began with
NoStore == [valid |-> FALSE, icode |-> NOP, addr |-> LLZero, val |-> LLZero,
            reg |-> [r \in 0..14 |-> LLZero], rA |-> NONE, rB |-> NONE,
            valC |-> LLZero, PC |-> LLZero, step |-> 0]

Snapshot == [PC |-> PC, memory |-> memory, reg |-> reg, zf |-> zf, sf |-> sf, of |-> of,
             stat |-> stat, nout |-> Len(out), temps |-> tempVars, cache |-> cacheVars]

\* variant: ZF starts cleared
InitZF_false == FALSE

\* `bool zf = true;`
InitZF == TRUE

\* Simulator::Simulator and the member initialisers
NoRegs == [r \in 0..14 |-> LLZero]

InitialSnapshot ==
    [PC |-> LLZero, memory |-> EmptyMemory, reg |-> NoRegs,
     zf |-> InitZF, sf |-> FALSE, of |-> FALSE, stat |-> AOK, nout |-> 0,
     temps |-> <<0, 0, NONE, NONE, LLZero, LLZero, LLZero, LLZero, LLZero, LLZero, FALSE>>,
     cache |-> <<EmptyCache, 0, 0>>]

Init ==
    /\ image \in Images
    /\ plainOut = <<>>
    /\ build = "plain"
    /\ pos = "load"
    /\ PC = LLZero
    /\ memory = EmptyMemory
    /\ reg = NoRegs
    /\ zf = InitZF /\ sf = FALSE /\ of = FALSE
    /\ stat = AOK
    /\ icode = 0 /\ ifun = 0 /\ rA = NONE /\ rB = NONE
    /\ valC = LLZero /\ valP = LLZero
    /\ valA = LLZero /\ valB = LLZero /\ valE = LLZero /\ valM = LLZero
    /\ cnd = FALSE
    /\ cache = EmptyCache /\ cache_hits = 0 /\ cache_misses = 0
    /\ isFirst = TRUE
    /\ out = <<>>
    /\ pre = InitialSnapshot
    /\ acc = NoAcc
    /\ fstat = AOK
    /\ oob = {}
    /\ plainOob = {}
    /\ lastStore = NoStore
    /\ lastCall = NoStore
    /\ nfetch = 0
    /\ icodes = <<>>

(***************************************************************************)
(* loadProgram: every byte of every data line goes to successive           *)
(* addresses; a byte whose address is not below MEM_SIZE is dropped and    *)
(* the address is not advanced.                                            *)
(***************************************************************************)
\* one data line: byte i of the line goes to addr + i as long as that address
\* is below MEM_SIZE; from then on addr no longer advances and the rest of the
\* line is dropped
LoadLine(m, addr, bytes) ==
    LET n       == IF addr >= MEM_SIZE THEN 0
                   ELSE IF Len(bytes) <= MEM_SIZE - addr THEN Len(bytes)
                   ELSE MEM_SIZE - addr
        written == addr..(addr + n - 1)
        dom     == {a \in DOMAIN m \cup written :
                       (IF a \in written THEN bytes[a - addr + 1] ELSE m[a]) # 0}
    IN  [a \in dom |-> IF a \in written THEN bytes[a - addr + 1] ELSE m[a]]

RECURSIVE LoadLines(_, _)
LoadLines(m, lines) ==
    IF lines = <<>> THEN m
    ELSE LoadLines(LoadLine(m, Head(lines).addr, Head(lines).bytes), Tail(lines))

loadProgram ==
    /\ pos = "load"
    /\ memory' = LoadLines(memory, image)
    /\ pos' = "loop"
    /\ UNCHANGED <<PC, reg, zf, sf, of, stat, tempVars, cacheVars, ioVars, histVars>>

(***************************************************************************)
(* 1. Fetch                                                                *)
(***************************************************************************)
\* memory[a] on the vector; a is never negative here.  An index at or past
\* MEM_SIZE is outside the vector: the byte is arbitrary or the process dies.
VecRead(m, a) ==
    IF a < MEM_SIZE
    THEN {[byte |-> MemGet(m, a), oob |-> FALSE, crash |-> FALSE]}
    ELSE {[byte |-> g, oob |-> TRUE, crash |-> FALSE] : g \in OobBytes}
         \cup {[byte |-> 0, oob |-> TRUE, crash |-> TRUE]}

\* variant: pushq and popq have no register byte
need_regs_noPushPop(ic) == ic \in {RRMOVQ, OPQ, IRMOVQ, RMMOVQ, MRMOVQ}

need_regs(ic) == ic \in {RRMOVQ, OPQ, PUSHQ, POPQ, IRMOVQ, RMMOVQ, MRMOVQ}
need_valC(ic) == ic \in {IRMOVQ, RMMOVQ, MRMOVQ, JXX, CALL}

\* the constant word of the instruction: readLong(valP) in the plain build,
\* eight unchecked reads of memory[valP + i] in the cache-enabled build
fetchValC(bld, m, cs, p) ==
    IF bld = "plain"
    THEN {[val |-> o.val, adr |-> o.adr, oob |-> o.oob, crash |-> o.crash]
            : o \in readLong(bld, m, cs, LL(p))}
    ELSE IF p + 8 <= MEM_SIZE
         THEN {[val |-> WordAt(m, p), adr |-> FALSE, oob |-> FALSE, crash |-> FALSE]}
         ELSE {[val |-> LLFromBytes([i \in 0..7 |->
                           IF p + i < MEM_SIZE THEN MemGet(m, p + i) ELSE g]),
                adr |-> FALSE, oob |-> TRUE, crash |-> FALSE] : g \in OobBytes}
              \cup {[val |-> LLZero, adr |-> FALSE, oob |-> TRUE, crash |-> TRUE]}

\* variant: an ifun the icode has no meaning for is illegal as well
illegalIcode_strict(ic, fn) ==
    \/ ic > 11
    \/ ic = OPQ /\ fn > 3
    \/ ic \in {JXX, RRMOVQ} /\ fn > 6
    \/ ic \in {HALT, NOP, RET} /\ fn > 0

\* `if (icode > 0xB)`
illegalIcode(ic, fn) == ic > 11

\* t is the record of the temporaries fetch may assign, with stat, oob, crash
fetchOutcomes(bld, pc, m, cs, t) ==
    IF LLIsNeg(pc) \/ ~LLLess(pc, LL(MEM_SIZE))
    THEN {[t EXCEPT !.stat = ADR]}
    ELSE
      LET byte0 == MemGet(m, LLInt(pc))
          ic    == (byte0 \div 16) % 16
          fn    == byte0 % 16
          t1    == [t EXCEPT !.icode = ic, !.ifun = fn]
      IN  IF illegalIcode(ic, fn)
          THEN {[t1 EXCEPT !.stat = INS]}
          ELSE
            LET p1 == LLInt(pc) + 1
                withRegs ==
                    IF need_regs(ic)
                    THEN {[t1 EXCEPT !.rA = (b.byte \div 16) % 16, !.rB = b.byte % 16,
                                     !.valP = LL(p1 + 1), !.oob = b.oob, !.crash = b.crash]
                            : b \in VecRead(m, p1)}
                    ELSE {[t1 EXCEPT !.rA = NONE, !.rB = NONE, !.valP = LL(p1)]}
            IN  UNION {
                  IF t2.crash \/ ~need_valC(ic) THEN {t2}
                  ELSE {[t2 EXCEPT !.valC = c.val,
                                   !.valP = LL(LLInt(t2.valP) + 8),
                                   !.stat = IF c.adr THEN ADR ELSE t2.stat,
                                   !.oob = t2.oob \/ c.oob,
                                   !.crash = c.crash]
                          : c \in fetchValC(bld, m, cs, LLInt(t2.valP))}
                  : t2 \in withRegs}

\* variant: the phases after Fetch run whatever Fetch left in stat
afterFetch_continue(st) == "decode"

\* run(): a fault in Fetch goes to the record at once and leaves the loop
afterFetch(st) == IF st # AOK THEN "fault" ELSE "decode"

\* variant: the loop does not test stat
loopCond_always(st) == TRUE

\* run(): `while (stat == Stat::AOK)`
loopCond(st) == st = AOK

fetch ==
    /\ pos = "loop"
    /\ loopCond(stat)
    /\ Len(out) < MaxSteps
    /\ \E o \in fetchOutcomes(build, PC, memory,
                              [cache |-> cache, hits |-> cache_hits, misses |-> cache_misses],
                              [stat |-> stat, icode |-> icode, ifun |-> ifun, rA |-> rA,
                               rB |-> rB, valC |-> valC, valP |-> valP,
                               oob |-> FALSE, crash |-> FALSE]) :
          /\ stat' = o.stat
          /\ icode' = o.icode /\ ifun' = o.ifun /\ rA' = o.rA /\ rB' = o.rB
          /\ valC' = o.valC /\ valP' = o.valP
          /\ fstat' = o.stat
          /\ icodes' = Append(icodes, o.icode)
          /\ oob' = IF o.oob THEN oob \cup {<<Len(out) + 1, "fetch">>} ELSE oob
          /\ pos' = IF o.crash THEN "crashed" ELSE afterFetch(o.stat)
    /\ pre' = Snapshot
    /\ acc' = NoAcc
    /\ nfetch' = nfetch + 1
    /\ UNCHANGED <<PC, memory, reg, zf, sf, of, valA, valB, valE, valM, cnd,
                   cacheVars, ioVars, plainOob, lastStore, lastCall>>

\* the loop condition is false: run() writes the closing bracket
loop_exit ==
    /\ pos = "loop"
    /\ ~loopCond(stat)
    /\ pos' = "done"
    /\ UNCHANGED <<archVars, tempVars, cacheVars, ioVars, histVars>>

(***************************************************************************)
(* 2. Decode                                                               *)
(***************************************************************************)
\* variant: pushq reads no source register
srcA_pushReadsNone(ic, ra) ==
    IF ic \in {RRMOVQ, RMMOVQ, OPQ} THEN ra
    ELSE IF ic \in {POPQ, RET} THEN RSP
    ELSE NONE

srcA(ic, ra) ==
    IF ic \in {RRMOVQ, RMMOVQ, OPQ, PUSHQ} THEN ra
    ELSE IF ic \in {POPQ, RET} THEN RSP
    ELSE NONE

srcB(ic, rb) ==
    IF ic \in {OPQ, RMMOVQ, MRMOVQ} THEN rb
    ELSE IF ic \in {PUSHQ, POPQ, CALL, RET} THEN RSP
    ELSE NONE

\* variant: the sentinel reads %rax
regRead_noneIsRax(rg, src) == IF src = NONE THEN rg[RAX] ELSE rg[src]

regRead(rg, src) == IF src = NONE THEN LLZero ELSE rg[src]

decode ==
    /\ pos = "decode"
    /\ valA' = regRead(reg, srcA(icode, rA))
    /\ valB' = regRead(reg, srcB(icode, rB))
    /\ pos' = "execute"
    /\ UNCHANGED <<archVars, icode, ifun, rA, rB, valC, valP, valE, valM, cnd,
                   cacheVars, ioVars, histVars>>

(***************************************************************************)
(* 3. Execute.  b + a, b - a, valB + valC, valB - 8 and valB + 8 wrap      *)
(* modulo 2^64 (the sums are computed on long long; the builds of the      *)
(* source at -O0, -O2 and -O3 all deliver the wrapped value).              *)
(***************************************************************************)
\* variant: subq computes a - b
aluOp_swapped(fn, a, b, old) ==
    IF fn = 0 THEN LLAdd(b, a)
    ELSE IF fn = 1 THEN LLSub(a, b)
    ELSE IF fn = 2 THEN LLAnd(b, a)
    ELSE IF fn = 3 THEN LLXor(b, a)
    ELSE old

\* variant: a function code that is no ALU operation yields valB
aluOp_illegalKeepsB(fn, a, b, old) ==
    IF fn = 0 THEN LLAdd(b, a)
    ELSE IF fn = 1 THEN LLSub(b, a)
    ELSE IF fn = 2 THEN LLAnd(b, a)
    ELSE IF fn = 3 THEN LLXor(b, a)
    ELSE b

aluOp(fn, a, b, old) ==
    IF fn = 0 THEN LLAdd(b, a)
    ELSE IF fn = 1 THEN LLSub(b, a)
    ELSE IF fn = 2 THEN LLAnd(b, a)
    ELSE IF fn = 3 THEN LLXor(b, a)
    ELSE old

\* variant: subq takes the overflow rule of addq
aluOF_addrule(fn, a, b, e) ==
    IF fn \in {0, 1}
    THEN \/ LLIsPos(a) /\ LLIsPos(b) /\ LLIsNeg(e)
         \/ LLIsNeg(a) /\ LLIsNeg(b) /\ ~LLIsNeg(e)
    ELSE FALSE

aluOF(fn, a, b, e) ==
    IF fn = 0
    THEN \/ LLIsPos(a) /\ LLIsPos(b) /\ LLIsNeg(e)
         \/ LLIsNeg(a) /\ LLIsNeg(b) /\ ~LLIsNeg(e)
    ELSE IF fn = 1
    THEN \/ LLIsPos(b) /\ LLIsNeg(a) /\ LLIsNeg(e)
         \/ LLIsNeg(b) /\ LLIsPos(a) /\ ~LLIsNeg(e)
    ELSE FALSE

\* variant: irmovq assigns the flags as well
setsCC_irmovq(ic) == ic \in {OPQ, IRMOVQ}

\* the instructions that assign zf, sf and of
setsCC(ic) == ic = OPQ

execValE(ic, fn, a, b, c, old) ==
    IF ic = OPQ THEN aluOp(fn, a, b, old)
    ELSE IF ic = IRMOVQ THEN c
    ELSE IF ic = RRMOVQ THEN a
    ELSE IF ic \in {RMMOVQ, MRMOVQ} THEN LLAdd(b, c)
    ELSE IF ic \in {PUSHQ, CALL} THEN LLSub(b, LL(8))
    ELSE IF ic \in {POPQ, RET} THEN LLAdd(b, LL(8))
    ELSE old

\* variant: ifun 1 tests SF xor OF only
cond_leIgnoresZF(fn, z, s, o) ==
    CASE fn = 0 -> TRUE
      [] fn \in {1, 2} -> (s # o)
      [] fn = 3 -> z
      [] fn = 4 -> ~z
      [] fn = 5 -> ~(s # o)
      [] fn = 6 -> ~(s # o) /\ ~z
      [] OTHER  -> FALSE

cond(fn, z, s, o) ==
    CASE fn = 0 -> TRUE
      [] fn = 1 -> (s # o) \/ z
      [] fn = 2 -> (s # o)
      [] fn = 3 -> z
      [] fn = 4 -> ~z
      [] fn = 5 -> ~(s # o)
      [] fn = 6 -> ~(s # o) /\ ~z
      [] OTHER  -> FALSE

\* variant: halt leaves stat alone
execStat_noHalt(ic, st) == st

\* `if (icode == ICode::HALT) stat = Stat::HLT;`
execStat(ic, st) == IF ic = HALT THEN HLT ELSE st

execute ==
    /\ pos = "execute"
    /\ valE' = execValE(icode, ifun, valA, valB, valC, valE)
    /\ IF setsCC(icode)
       THEN /\ zf' = LLIsZero(valE')
            /\ sf' = LLIsNeg(valE')
            /\ of' = aluOF(ifun, valA, valB, valE')
       ELSE UNCHANGED <<zf, sf, of>>
    /\ cnd' = IF icode \in {JXX, RRMOVQ} THEN cond(ifun, zf', sf', of') ELSE cnd
    /\ stat' = execStat(icode, stat)
    /\ pos' = "memory"
    /\ UNCHANGED <<PC, memory, reg, icode, ifun, rA, rB, valC, valP, valA, valB, valM,
                   cacheVars, ioVars, histVars>>

(***************************************************************************)
(* 4. Memory                                                               *)
(***************************************************************************)
\* variant: call stores nothing
memWrites_noCall(ic) == ic \in {RMMOVQ, PUSHQ}

memWrites(ic) == ic \in {RMMOVQ, PUSHQ, CALL}
memReads(ic)  == ic \in {MRMOVQ, POPQ, RET}

\* variant: every read takes its address from valA
memAddr_readsValA(ic, e, a) ==
    IF ic \in {RMMOVQ, PUSHQ, CALL} THEN e
    ELSE IF ic \in {MRMOVQ, POPQ, RET} THEN a
    ELSE LLZero

memAddr(ic, e, a) ==
    IF ic \in {RMMOVQ, PUSHQ, CALL, MRMOVQ} THEN e
    ELSE IF ic \in {POPQ, RET} THEN a
    ELSE LLZero

\* variant: every store writes valP
memWriteVal_valP(ic, a, p) == p

memWriteVal(ic, a, p) == IF ic = CALL THEN p ELSE a

memory_access ==
    /\ pos = "memory"
    /\ LET cs   == [cache |-> cache, hits |-> cache_hits, misses |-> cache_misses]
           addr == memAddr(icode, valE, valA)
           outcomes ==
               IF memReads(icode) THEN readLong(build, memory, cs, addr)
               ELSE IF memWrites(icode)
               THEN writeLong(build, memory, cs, addr, memWriteVal(icode, valA, valP))
               ELSE {[val |-> valM, adr |-> FALSE, memory |-> memory, cs |-> cs,
                      oob |-> FALSE, crash |-> FALSE]}
       IN  /\ acc' = [kind |-> IF memReads(icode) THEN "read"
                               ELSE IF memWrites(icode) THEN "write" ELSE "none",
                      addr |-> addr]
           /\ \E o \in outcomes :
                /\ valM' = IF memReads(icode) THEN o.val ELSE valM
                /\ stat' = IF o.adr THEN ADR ELSE stat
                /\ memory' = o.memory
                /\ cache' = o.cs.cache
                /\ cache_hits' = o.cs.hits
                /\ cache_misses' = o.cs.misses
                /\ oob' = IF o.oob THEN oob \cup {<<Len(out) + 1, "memory">>} ELSE oob
                /\ lastStore' =
                      IF memWrites(icode)
                      THEN [valid |-> ~o.adr /\ ~o.oob /\ ~o.crash, icode |-> icode,
                            addr |-> addr, val |-> memWriteVal(icode, valA, valP),
                            reg |-> pre.reg, rA |-> rA, rB |-> rB, valC |-> valC,
                            PC |-> pre.PC, step |-> Len(out) + 1]
                      ELSE lastStore
                /\ lastCall' = IF icode = CALL THEN lastStore' ELSE lastCall
                /\ pos' = IF o.crash THEN "crashed" ELSE "write_back"
    /\ UNCHANGED <<PC, reg, zf, sf, of, icode, ifun, rA, rB, valC, valP, valA, valB, valE,
                   cnd, ioVars, pre, fstat, plainOob, nfetch, icodes>>

(***************************************************************************)
(* 5. Write-back: dstE first, then dstM                                    *)
(***************************************************************************)
dstE(ic, rb, cn) ==
    IF ic = RRMOVQ /\ cn THEN rb
    ELSE IF ic \in {OPQ, IRMOVQ} THEN rb
    ELSE IF ic \in {PUSHQ, POPQ, CALL, RET} THEN RSP
    ELSE NONE

\* variant: popq has no dstM
dstM_onlyMrmovq(ic, ra) == IF ic = MRMOVQ THEN ra ELSE NONE

dstM(ic, ra) == IF ic \in {MRMOVQ, POPQ} THEN ra ELSE NONE

regWrite(rg, dst, v) == IF dst # NONE THEN [rg EXCEPT ![dst] = v] ELSE rg

\* variant: the dstM write comes first
writeBack_dstMFirst(rg, de, e, dm, m) == regWrite(regWrite(rg, dm, m), de, e)

\* `if (dstE != NONE) reg[dstE] = valE;` then `if (dstM != NONE) reg[dstM] = valM;`
writeBack(rg, de, e, dm, m) == regWrite(regWrite(rg, de, e), dm, m)

write_back ==
    /\ pos = "write_back"
    /\ reg' = writeBack(reg, dstE(icode, rB, cnd), valE, dstM(icode, rA), valM)
    /\ pos' = "pc_update"
    /\ UNCHANGED <<PC, memory, zf, sf, of, stat, tempVars, cacheVars, ioVars, histVars>>

(***************************************************************************)
(* 6. PC update                                                            *)
(***************************************************************************)
\* variant: the PC is updated whatever stat is
newPC_ungated(st, ic, cn, c, m, p, pc) ==
    IF ic = CALL THEN c
    ELSE IF ic = RET THEN m
    ELSE IF ic = JXX THEN (IF cn THEN c ELSE p)
    ELSE p

\* variant: ret goes on with the next instruction
newPC_retFallsThrough(st, ic, cn, c, m, p, pc) ==
    IF st # AOK THEN pc
    ELSE IF ic = CALL THEN c
    ELSE IF ic = JXX THEN (IF cn THEN c ELSE p)
    ELSE p

newPC(st, ic, cn, c, m, p, pc) ==
    IF st # AOK THEN pc
    ELSE IF ic = CALL THEN c
    ELSE IF ic = RET THEN m
    ELSE IF ic = JXX THEN (IF cn THEN c ELSE p)
    ELSE p

pc_update ==
    /\ pos = "pc_update"
    /\ PC' = newPC(stat, icode, cnd, valC, valM, valP, PC)
    /\ pos' = "print"
    /\ UNCHANGED <<memory, reg, zf, sf, of, stat, tempVars, cacheVars, ioVars, histVars>>

(***************************************************************************)
(* printJsonState: the record of the five fields.  MEM has one entry for   *)
(* every 8-byte aligned word that is not 0.                                *)
(***************************************************************************)
\* The loop `for (i = 0; i < MEM_SIZE; i += 8)` keeps the words that are not 0.
\* A word that is not 0 has a byte that is not 0, so the words to look at are
\* the aligned windows around the non-zero bytes, which are DOMAIN m.
\* variant: the loop over the words starts at address 8
memDump_from8(m) ==
    LET keys == {i \in {8 * (a \div 8) : a \in DOMAIN m} : i > 0 /\ WordAt(m, i) # LLZero}
    IN  [i \in keys |-> WordAt(m, i)]

\* variant: only the words greater than 0 are kept
memDump_positiveOnly(m) ==
    LET keys == {i \in {8 * (a \div 8) : a \in DOMAIN m} : LLIsPos(WordAt(m, i))}
    IN  [i \in keys |-> WordAt(m, i)]

memDump(m) ==
    LET keys == {i \in {8 * (a \div 8) : a \in DOMAIN m} : WordAt(m, i) # LLZero}
    IN  [i \in keys |-> WordAt(m, i)]

\* variant: the record is taken before the PC update
record_beforePCUpdate == [PC |-> pre.PC, STAT |-> stat, ZF |-> zf, SF |-> sf, OF |-> of,
                          REG |-> reg, MEM |-> memDump(memory)]

record == [PC |-> PC, STAT |-> stat, ZF |-> zf, SF |-> sf, OF |-> of,
           REG |-> reg, MEM |-> memDump(memory)]

\* the record of a step that went through all six phases
printJsonState ==
    /\ pos = "print"
    /\ out' = Append(out, record)
    /\ isFirst' = FALSE
    /\ pos' = "check"
    /\ UNCHANGED <<archVars, tempVars, cacheVars, image, build, plainOut, histVars>>

\* the record of a step that faulted in Fetch, followed by break
print_fault ==
    /\ pos = "fault"
    /\ out' = Append(out, record)
    /\ pos' = "done"
    /\ UNCHANGED <<archVars, tempVars, cacheVars, image, build, isFirst, plainOut, histVars>>

\* variant: the loop is left for a PC past the first 64 bytes
pcOutOfRange_low(pc) == LLIsNeg(pc) \/ ~LLLess(pc, LL(64))

\* variant: the loop tests PC < 0 only
pcOutOfRange_onlyNegative(pc) == LLIsNeg(pc)

\* variant: the loop has no test of the PC
pcOutOfRange_never(pc) == FALSE

\* `if (PC < 0 || PC >= MEM_SIZE) break;`
pcOutOfRange(pc) == LLIsNeg(pc) \/ ~LLLess(pc, LL(MEM_SIZE))

check_pc ==
    /\ pos = "check"
    /\ pos' = IF pcOutOfRange(PC) THEN "done" ELSE "loop"
    /\ UNCHANGED <<archVars, tempVars, cacheVars, ioVars, histVars>>

(***************************************************************************)
(* The same image is then given to the cache-enabled build.                *)
(***************************************************************************)
Stopped ==
    \/ pos \in {"done", "crashed"}
    \/ pos = "loop" /\ Len(out) >= MaxSteps

run_cached ==
    /\ build = "plain"
    /\ Stopped
    /\ plainOut' = out
    /\ image' = image
    /\ build' = "cached"
    /\ pos' = "load"
    /\ PC' = LLZero
    /\ memory' = EmptyMemory
    /\ reg' = NoRegs
    /\ zf' = InitZF /\ sf' = FALSE /\ of' = FALSE
    /\ stat' = AOK
    /\ icode' = 0 /\ ifun' = 0 /\ rA' = NONE /\ rB' = NONE
    /\ valC' = LLZero /\ valP' = LLZero
    /\ valA' = LLZero /\ valB' = LLZero /\ valE' = LLZero /\ valM' = LLZero
    /\ cnd' = FALSE
    /\ cache' = EmptyCache /\ cache_hits' = 0 /\ cache_misses' = 0
    /\ isFirst' = TRUE
    /\ out' = <<>>
    /\ pre' = InitialSnapshot
    /\ acc' = NoAcc
    /\ fstat' = AOK
    /\ oob' = {}
    /\ plainOob' = oob
    /\ lastStore' = NoStore
    /\ lastCall' = NoStore
    /\ nfetch' = 0
    /\ icodes' = <<>>

Next ==
    \/ loadProgram
    \/ fetch
    \/ loop_exit
    \/ decode
    \/ execute
    \/ memory_access
    \/ write_back
    \/ pc_update
    \/ printJsonState
    \/ print_fault
    \/ check_pc
    \/ run_cached

Spec == Init /\ [][Next]_vars

(***************************************************************************)
(* Properties                                                              *)
(***************************************************************************)
\* the record of the current step has been written
StepEmitted == Len(out) = pre.nout + 1

LastRecord == out[Len(out)]

\* the step has just left fetch()
JustFetched == pos \in {"decode", "fault"} \/ (pos = "crashed" /\ acc = NoAcc)

InstrLen(ic) == 1 + (IF need_regs(ic) THEN 1 ELSE 0) + (IF need_valC(ic) THEN 8 ELSE 0)

\* addr < 0 or addr + 8 > 0x10000 over the integers
AddrOutOfRange(addr) == LLIsNeg(addr) \/ LLLess(LL(MEM_SIZE - 8), addr)

\* C1: a step that ends with STAT != AOK (HLT in Execute, INS or ADR in Fetch,
\* ADR in Memory) leaves the PC at the address the instruction was fetched
\* from, in the state and in the record written for the step.
C1_PCFreeze ==
    /\ stat # AOK => PC = pre.PC
    /\ (StepEmitted /\ LastRecord.STAT # AOK) => LastRecord.PC = pre.PC

C1_Witness ==
    /\ pos = "done" /\ stat = ADR /\ acc.kind = "write"
    /\ StepEmitted /\ LastRecord.PC = pre.PC /\ pre.PC # LLZero

\* C2: once STAT has left AOK in a run it never is AOK again, no record follows
\* the record of that step, and no further instruction is fetched: from the
\* loop head run() can only leave the loop.
C2_StatusAbsorbing ==
    [][(stat # AOK /\ build' = build) =>
          /\ stat' # AOK
          /\ Len(out') <= pre.nout + 1
          /\ pre' = pre
          /\ (pos = "loop" => pos' = "done")]_vars

C2_Witness ==
    /\ pos = "done" /\ stat = ADR /\ icode = MRMOVQ /\ acc.kind = "read"
    /\ StepEmitted /\ LastRecord.STAT = ADR
    /\ MemGet(memory, LLInt(PC) + 10) = NOP * 16

\* C3 as stated: whenever run() has left its loop the last record has STAT in
\* {HLT, ADR, INS}.
C3_FinalStatNotAOK ==
    pos = "done" => LastRecord.STAT \in {HLT, ADR, INS}

\* C3 amended: whenever run() has left its loop the last record has STAT in
\* {HLT, ADR, INS}, or it has STAT = AOK and a PC outside [0, 0x10000).
C3_FinalStatOrPCOut ==
    pos = "done" =>
        \/ LastRecord.STAT \in {HLT, ADR, INS}
        \/ /\ LastRecord.STAT = AOK
           /\ (LLIsNeg(LastRecord.PC) \/ ~LLLess(LastRecord.PC, LL(MEM_SIZE)))

C3_Witness ==
    /\ pos = "done" /\ Len(out) > 0 /\ LastRecord.STAT = AOK
    /\ ~LLLess(LastRecord.PC, LL(MEM_SIZE))

\* C4: an 8-byte access of the Memory phase at an address addr with addr < 0
\* or addr + 8 > 0x10000 sets STAT to ADR, a read returns 0, memory is not
\* changed and no byte outside [0, 0x10000) is accessed.
C4_BoundsChecked ==
    (pos \in {"write_back", "crashed"} /\ acc.kind # "none" /\ AddrOutOfRange(acc.addr)) =>
        /\ pos = "write_back"
        /\ stat = ADR
        /\ (acc.kind = "read" => valM = LLZero)
        /\ memory = pre.memory
        /\ <<pre.nout + 1, "memory">> \notin oob

\* C5: in the build of src/cpu.cpp, an instruction with a legal icode one of
\* whose bytes lies at an address >= 0x10000 ends Fetch with STAT = ADR and
\* no byte outside memory is read.
C5_FetchPastEndIsADR ==
    (/\ build = "plain" /\ JustFetched /\ icode <= 11
     /\ LLInt(pre.PC) + InstrLen(icode) > MEM_SIZE) =>
        /\ pos = "fault"
        /\ stat = ADR
        /\ <<pre.nout + 1, "fetch">> \notin oob

\* C6: when Fetch leaves STAT at INS or ADR no later phase runs: PC, REG, MEM
\* and the flags in the state and in the record of the step are those of the
\* state before the step, only STAT differs.
C6_FetchFaultSkipsPhases ==
    fstat # AOK =>
        /\ pos \in {"fault", "done"}
        /\ stat = fstat /\ pre.stat = AOK
        /\ PC = pre.PC /\ reg = pre.reg /\ memory = pre.memory
        /\ zf = pre.zf /\ sf = pre.sf /\ of = pre.of
        /\ (pos = "done" =>
              /\ StepEmitted
              /\ LastRecord = [PC |-> pre.PC, STAT |-> fstat,
                               ZF |-> pre.zf, SF |-> pre.sf, OF |-> pre.of,
                               REG |-> pre.reg, MEM |-> memDump(pre.memory)])

C6_Witness ==
    /\ pos = "done" /\ fstat = ADR /\ StepEmitted
    /\ reg[RSP] # LLZero /\ pre.PC # LLZero /\ LastRecord.REG = pre.reg

\* C7: on the same image the cache-enabled build writes the same records as
\* the build without the cache (here for the images on which the build
\* without the cache accesses no byte outside memory).
C7_CacheTransparent ==
    (build = "cached" /\ plainOob = {}) =>
        /\ \A k \in 1..Len(out) : k <= Len(plainOut) /\ out[k] = plainOut[k]
        /\ (pos = "done" => Len(out) = Len(plainOut))

\* C8: in the cache-enabled build, when the 8-byte constant of an instruction
\* extends past address 0xFFFF (the bytes before the constant being inside
\* memory), Fetch sets STAT = ADR, the PC stays at the instruction and no byte
\* outside [0, 0x10000) is read.
C8_CachedConstantPastEnd ==
    (/\ build = "cached" /\ JustFetched /\ icode <= 11 /\ need_valC(icode)
     /\ LLInt(pre.PC) + InstrLen(icode) > MEM_SIZE
     /\ LLInt(pre.PC) + InstrLen(icode) - 8 < MEM_SIZE) =>
        /\ pos = "fault"
        /\ stat = ADR
        /\ PC = pre.PC
        /\ <<pre.nout + 1, "fetch">> \notin oob

\* C9: the record of a step whose icode is not OPQ, and of a step that
\* faulted in Fetch, has the ZF, SF and OF of the record before it (ZF = 1,
\* SF = 0, OF = 0 for the first record).
C9_FlagsOnlyByOPQ ==
    (StepEmitted /\ (icode # OPQ \/ fstat # AOK)) =>
        LET n == Len(out)
        IN  <<out[n].ZF, out[n].SF, out[n].OF>> =
                IF n = 1 THEN <<TRUE, FALSE, FALSE>>
                ELSE <<out[n - 1].ZF, out[n - 1].SF, out[n - 1].OF>>

C9_Witness ==
    /\ StepEmitted /\ icode = RRMOVQ /\ fstat = AOK /\ Len(out) > 1
    /\ LastRecord.SF /\ LastRecord.OF /\ ~LastRecord.ZF

\* C10: after an OPq with ifun in 0..3 on registers rA and rB holding a and b,
\* REG[rB] is b+a, b-a, b&a, b^a (modulo 2^64), ZF = (result = 0),
\* SF = (result < 0), and OF is (a>0 and b>0 and result<0) or (a<0 and b<0 and
\* result>=0) for add, (b>0 and a<0 and result<0) or (b<0 and a>0 and
\* result>=0) for sub, false for and/xor.
C10_OPQSemantics ==
    (/\ StepEmitted /\ fstat = AOK /\ icode = OPQ /\ ifun \in 0..3
     /\ rA \in 0..14 /\ rB \in 0..14) =>
        LET a == pre.reg[rA]
            b == pre.reg[rB]
            r == CASE ifun = 0 -> LLAdd(b, a)
                   [] ifun = 1 -> LLSub(b, a)
                   [] ifun = 2 -> LLAnd(b, a)
                   [] ifun = 3 -> LLXor(b, a)
            o == CASE ifun = 0 -> \/ LLIsPos(a) /\ LLIsPos(b) /\ LLIsNeg(r)
                                  \/ LLIsNeg(a) /\ LLIsNeg(b) /\ ~LLIsNeg(r)
                   [] ifun = 1 -> \/ LLIsPos(b) /\ LLIsNeg(a) /\ LLIsNeg(r)
                                  \/ LLIsNeg(b) /\ LLIsPos(a) /\ ~LLIsNeg(r)
                   [] OTHER    -> FALSE
        IN  /\ reg[rB] = r /\ LastRecord.REG[rB] = r
            /\ LastRecord.ZF = (r = LLZero)
            /\ LastRecord.SF = LLIsNeg(r)
            /\ LastRecord.OF = o

C10_Witness ==
    /\ StepEmitted /\ fstat = AOK /\ icode = OPQ /\ ifun = 1 /\ rA = RAX /\ rB = RBX
    /\ pre.reg[RAX] = LL(1) /\ pre.reg[RBX] = LLMin
    /\ reg[RBX] = LLMax /\ LastRecord.OF /\ ~LastRecord.SF /\ ~LastRecord.ZF

\* C11 as stated: on the image of scenario S3 (irmovq $0x8000000000000000,%rax;
\* irmovq $-1,%rbx; subq %rbx,%rax; halt) the record after the subq and the
\* final record have OF = 1, SF = 1, ZF = 0.
C11_S3OverflowSet ==
    image = S3Image =>
        \A k \in {3, 4} : k <= Len(out) => (out[k].OF /\ out[k].SF /\ ~out[k].ZF)

\* C11 amended: on the image of scenario S3 the record after the subq and the
\* final record have OF = 0, SF = 1, ZF = 0, and rax = INT64_MIN + 1: the
\* difference INT64_MIN - (-1) does not overflow.
C11_S3NoOverflow ==
    image = S3Image =>
        \A k \in {3, 4} : k <= Len(out) =>
            /\ ~out[k].OF /\ out[k].SF /\ ~out[k].ZF
            /\ out[k].REG[RAX] = LLAdd(LLMin, LL(1))

C11_Witness ==
    /\ image = S3Image /\ pos = "done" /\ Len(out) = 4
    /\ out[4].STAT = HLT /\ out[3].STAT = AOK
    /\ out[2].REG[RAX] = LLMin /\ out[2].REG[RBX] = LLNegOf(1)
    /\ out[4].SF /\ ~out[4].OF

\* the address base + displacement of an rmmovq or mrmovq, from the registers
\* the instruction began with
EffAddr(rg, rb, c) == LLAdd(IF rb = NONE THEN LLZero ELSE rg[rb], c)

\* C12: after an rmmovq that stores V = REG[rA] at an address A with 0 <= A and
\* A + 8 <= 0x10000 and ends with STAT = AOK, the bytes at A..A+7 are the bytes
\* of V in little-endian order; and an mrmovq from the same A that ends with
\* STAT = AOK, with no store between the two, leaves its destination register
\* equal to V (in the state and in the record), in both builds.
C12_StoreLoadRoundTrip ==
    /\ (/\ StepEmitted /\ fstat = AOK /\ stat = AOK /\ icode = RMMOVQ /\ rA \in 0..14
         /\ ~AddrOutOfRange(EffAddr(pre.reg, rB, valC))) =>
            \A i \in 0..7 :
                MemGet(memory, LLInt(EffAddr(pre.reg, rB, valC)) + i) = LLByte(pre.reg[rA], i)
    /\ (/\ StepEmitted /\ fstat = AOK /\ stat = AOK /\ icode = MRMOVQ /\ rA \in 0..14
         /\ lastStore.valid /\ lastStore.icode = RMMOVQ /\ lastStore.rA \in 0..14
         /\ EffAddr(pre.reg, rB, valC) = EffAddr(lastStore.reg, lastStore.rB, lastStore.valC)
         /\ ~AddrOutOfRange(EffAddr(pre.reg, rB, valC))) =>
            /\ reg[rA] = lastStore.reg[lastStore.rA]
            /\ LastRecord.REG[rA] = lastStore.reg[lastStore.rA]

C12_Witness ==
    /\ build = "cached" /\ StepEmitted /\ fstat = AOK /\ stat = AOK /\ icode = MRMOVQ
    /\ lastStore.valid /\ lastStore.icode = RMMOVQ /\ lastStore.step = Len(out) - 1
    /\ cache_hits > 0
    /\ EffAddr(pre.reg, rB, valC) = LL(283)
    /\ EffAddr(lastStore.reg, lastStore.rB, lastStore.valC) = LL(283)
    /\ reg[RBX] = <<513, 1027, 1541, 34823>>
    /\ MemGet(memory, 283) = 1 /\ MemGet(memory, 290) = 136

\* a popq of a register 0..14 has ended with STAT = AOK right after a pushq of
\* another register 0..14, both stack accesses inside [0, 0x10000)
PushThenPop ==
    /\ StepEmitted /\ fstat = AOK /\ stat = AOK /\ icode = POPQ /\ rA \in 0..14
    /\ lastStore.valid /\ lastStore.icode = PUSHQ /\ lastStore.step = Len(out) - 1
    /\ lastStore.rA \in 0..14 /\ lastStore.rA # rA
    /\ ~AddrOutOfRange(LLSub(lastStore.reg[RSP], LL(8)))
    /\ ~AddrOutOfRange(pre.reg[RSP])

\* C13 as stated: `pushq r` immediately followed by `popq r'`, r and r'
\* distinct registers 0..14 and both stack accesses in range, leaves REG[r']
\* equal to the REG[r] before the pushq and, whenever r is not RSP, RSP equal
\* to the RSP before the pushq.
C13_PushPopRestoresUnlessPushRSP ==
    PushThenPop =>
        /\ reg[rA] = lastStore.reg[lastStore.rA]
        /\ LastRecord.REG[rA] = lastStore.reg[lastStore.rA]
        /\ (lastStore.rA # RSP => reg[RSP] = lastStore.reg[RSP])

\* C13 amended: `pushq r` immediately followed by `popq r'`, r and r' distinct
\* registers 0..14 and both stack accesses in range, leaves REG[r'] equal to
\* the REG[r] before the pushq and, whenever r' is not RSP (r may be RSP), RSP
\* equal to the RSP before the pushq.
C13_PushPopPairing ==
    PushThenPop =>
        /\ reg[rA] = lastStore.reg[lastStore.rA]
        /\ LastRecord.REG[rA] = lastStore.reg[lastStore.rA]
        /\ (rA # RSP => (reg[RSP] = lastStore.reg[RSP] /\ LastRecord.REG[RSP] = lastStore.reg[RSP]))

C13_Witness ==
    /\ PushThenPop /\ lastStore.rA = RAX /\ rA = 14
    /\ lastStore.reg[RSP] = LL(259) /\ lastStore.addr = LL(251)
    /\ reg[14] = <<513, 1027, 1541, 34823>> /\ reg[RSP] = LL(259)
    /\ lastStore.reg[14] = LLZero

\* C14: after a popq %rsp whose stack access is in range, RSP (in the state and
\* in the record) is the 8-byte little-endian value that was in memory at the
\* old RSP, not the old RSP + 8: the dstM write follows the dstE write.
C14_PopRSP ==
    (/\ StepEmitted /\ fstat = AOK /\ stat = AOK /\ icode = POPQ /\ rA = RSP
     /\ ~AddrOutOfRange(pre.reg[RSP])) =>
        /\ reg[RSP] = WordAt(pre.memory, LLInt(pre.reg[RSP]))
        /\ LastRecord.REG[RSP] = WordAt(pre.memory, LLInt(pre.reg[RSP]))
        /\ valE = LLAdd(pre.reg[RSP], LL(8))

C14_Witness ==
    /\ StepEmitted /\ fstat = AOK /\ stat = AOK /\ icode = POPQ /\ rA = RSP
    /\ pre.reg[RSP] = LL(256) /\ reg[RSP] = LL(64) /\ valE = LL(264)
    /\ LastRecord.REG[RSP] = LL(64)

\* C15: a call at address P (its 9 bytes inside memory) with RSP = s, s - 8 in
\* range, that ends with STAT = AOK has stored P + 9 at s - 8 and set RSP = s - 8 and PC = A, the
\* constant of the call; a later ret that begins with RSP = s - 8 and the word
\* at s - 8 still P + 9 and ends with STAT = AOK sets RSP = s and PC = P + 9.
C15_CallRetPairing ==
    /\ (/\ StepEmitted /\ fstat = AOK /\ stat = AOK /\ icode = CALL
         /\ LLInt(pre.PC) + 9 <= MEM_SIZE
         /\ ~AddrOutOfRange(LLSub(pre.reg[RSP], LL(8)))) =>
            LET sp == LLSub(pre.reg[RSP], LL(8))
                A  == WordAt(pre.memory, LLInt(pre.PC) + 1)
            IN  /\ WordAt(memory, LLInt(sp)) = LLAdd(pre.PC, LL(9))
                /\ reg[RSP] = sp /\ LastRecord.REG[RSP] = sp
                /\ PC = A /\ LastRecord.PC = A
    /\ (/\ StepEmitted /\ fstat = AOK /\ stat = AOK /\ icode = RET
         /\ lastCall.valid
         /\ pre.reg[RSP] = LLSub(lastCall.reg[RSP], LL(8))
         /\ ~AddrOutOfRange(pre.reg[RSP])
         /\ WordAt(pre.memory, LLInt(pre.reg[RSP])) = LLAdd(lastCall.PC, LL(9))) =>
            /\ reg[RSP] = lastCall.reg[RSP] /\ LastRecord.REG[RSP] = lastCall.reg[RSP]
            /\ PC = LLAdd(lastCall.PC, LL(9)) /\ LastRecord.PC = LLAdd(lastCall.PC, LL(9))

C15_Witness ==
    /\ StepEmitted /\ fstat = AOK /\ stat = AOK /\ icode = RET
    /\ lastCall.valid /\ lastCall.PC = LL(10) /\ lastCall.reg[RSP] = LL(259)
    /\ lastCall.step = Len(out) - 3 /\ lastStore.icode = PUSHQ
    /\ pre.reg[RSP] = LL(251) /\ WordAt(pre.memory, 251) = LL(19)
    /\ reg[RSP] = LL(259) /\ PC = LL(19) /\ pre.PC = LL(68)

\* the condition the claim gives for ifun under the flags z, s, o
ExpectedCnd(fn, z, s, o) ==
    LET x == (s /\ ~o) \/ (~s /\ o)
    IN  \/ fn = 0
        \/ fn = 1 /\ (x \/ z)
        \/ fn = 2 /\ x
        \/ fn = 3 /\ z
        \/ fn = 4 /\ ~z
        \/ fn = 5 /\ ~x
        \/ fn = 6 /\ ~x /\ ~z

\* C16: a jXX or rrmovq/cmovXX with any ifun in 0..15 computes cnd as: true for
\* 0, (SF xor OF) or ZF for 1, SF xor OF for 2, ZF for 3, not ZF for 4,
\* not (SF xor OF) for 5, not (SF xor OF) and not ZF for 6, false for 7..15,
\* on the flags the step began with; the jXX sets PC to its constant exactly
\* when cnd holds and to PC + 9 otherwise; the rrmovq/cmovXX on registers
\* 0..14 writes REG[rB] := REG[rA] exactly when cnd holds and otherwise
\* changes no register.
C16_ConditionEvaluation ==
    (/\ StepEmitted /\ fstat = AOK /\ stat = AOK /\ icode \in {JXX, RRMOVQ}
     /\ LLInt(pre.PC) + InstrLen(icode) <= MEM_SIZE) =>
        LET c == ExpectedCnd(ifun, pre.zf, pre.sf, pre.of)
        IN  /\ cnd = c
            /\ icode = JXX =>
                  /\ PC = IF c THEN WordAt(pre.memory, LLInt(pre.PC) + 1)
                               ELSE LLAdd(pre.PC, LL(9))
                  /\ LastRecord.PC = PC
                  /\ reg = pre.reg
            /\ (icode = RRMOVQ /\ rA \in 0..14 /\ rB \in 0..14) =>
                  /\ reg = IF c THEN [pre.reg EXCEPT ![rB] = pre.reg[rA]] ELSE pre.reg
                  /\ LastRecord.REG = reg
                  /\ PC = LLAdd(pre.PC, LL(2))

C16_Witness ==
    /\ StepEmitted /\ fstat = AOK /\ stat = AOK /\ icode = RRMOVQ /\ ifun = 1
    /\ pre.zf /\ pre.of /\ ~pre.sf /\ cnd
    /\ rA = RDX /\ rB = RCX /\ pre.reg[RCX] = LLZero /\ reg[RCX] = LL(4660)

\* the step is past decode(): valA and valB are those of the instruction
Decoded == pos \in {"execute", "memory", "write_back", "pc_update", "print", "check"}

\* C17 as stated, for the destinations: a step of irmovq or OPq with rB = 0xF,
\* or of mrmovq or popq with rA = 0xF, changes no register.
C17_NoneDestChangesNoRegister ==
    (/\ StepEmitted /\ fstat = AOK
     /\ \/ icode \in {IRMOVQ, OPQ} /\ rB = NONE
        \/ icode \in {MRMOVQ, POPQ} /\ rA = NONE) =>
        reg = pre.reg

\* C17 amended: the register specifiers are 0..15 and REG has the entries
\* 0..14; a source specifier of 15 gives the operand 0; no register is
\* written through a destination specifier of 15: irmovq, OPq, rrmovq with
\* rB = 0xF and mrmovq with rA = 0xF change no register, and popq with
\* rA = 0xF changes RSP only, to RSP + 8.
C17_NoneSentinel ==
    /\ rA \in 0..15 /\ rB \in 0..15 /\ DOMAIN reg = 0..14
    /\ (Decoded /\ fstat = AOK) =>
          /\ (icode \in {RRMOVQ, RMMOVQ, OPQ, PUSHQ} /\ rA = NONE) => valA = LLZero
          /\ (icode \in {OPQ, RMMOVQ, MRMOVQ} /\ rB = NONE) => valB = LLZero
    /\ (StepEmitted /\ fstat = AOK) =>
          /\ (icode \in {IRMOVQ, OPQ, RRMOVQ} /\ rB = NONE) => reg = pre.reg
          /\ (icode = MRMOVQ /\ rA = NONE) => reg = pre.reg
          /\ (icode = POPQ /\ rA = NONE) =>
                reg = [pre.reg EXCEPT ![RSP] = LLAdd(pre.reg[RSP], LL(8))]
          /\ LastRecord.REG = reg

C17_Witness ==
    /\ StepEmitted /\ fstat = AOK /\ stat = AOK /\ icode = OPQ /\ ifun = 1
    /\ rA = RAX /\ rB = NONE /\ valB = LLZero /\ valA = <<513, 1027, 1541, 34823>>
    /\ valE = LLSub(LLZero, valA) /\ reg = pre.reg /\ ~zf /\ pre.zf

\* a step has been fetched in this run: pre is the state it began with
StepBegun == pos # "load" /\ ~(pos = "loop" /\ Len(out) = 0)

\* C18: STAT is INS, after Fetch and in the record of the step, exactly when
\* the high nibble of the byte at the PC of the step is greater than 0xB; with
\* an icode in 0..0xB no ifun in 0..15 makes Fetch set INS.
C18_InsClassification ==
    StepBegun =>
        LET hi == MemGet(pre.memory, LLInt(pre.PC)) \div 16
        IN  /\ ~pcOutOfRange(pre.PC)
            /\ (stat = INS) = (hi > 11)
            /\ (fstat = INS) = (hi > 11)
            /\ StepEmitted => ((LastRecord.STAT = INS) = (hi > 11))
            /\ hi <= 11 => icode = hi

C18_Witness ==
    /\ StepEmitted /\ icode = OPQ /\ ifun = 15 /\ fstat = AOK /\ Len(out) = 1
    /\ LastRecord.STAT = AOK /\ LastRecord.PC = LL(2)
    /\ MemGet(pre.memory, 0) = OPQ * 16 + 15

\* C19: a step whose icode is HALT (any ifun) sets STAT = HLT in Execute and,
\* through Decode, Execute, Memory, Write-back and PC update, leaves PC, the 15
\* registers, memory and ZF, SF, OF as they were before the step; its record
\* is the state before the step with STAT = HLT.
C19_HaltOnlySetsStat ==
    (StepBegun /\ fstat = AOK /\ icode = HALT) =>
        /\ PC = pre.PC /\ reg = pre.reg /\ memory = pre.memory
        /\ zf = pre.zf /\ sf = pre.sf /\ of = pre.of
        /\ pre.stat = AOK
        /\ stat = IF pos \in {"decode", "execute"} THEN AOK ELSE HLT
        /\ StepEmitted =>
              LastRecord = [PC |-> pre.PC, STAT |-> HLT,
                            ZF |-> pre.zf, SF |-> pre.sf, OF |-> pre.of,
                            REG |-> pre.reg, MEM |-> memDump(pre.memory)]

C19_Witness ==
    /\ pos = "print" /\ fstat = AOK /\ icode = HALT /\ ifun = 0 /\ stat = HLT
    /\ PC = pre.PC /\ PC = LL(22) /\ of /\ sf /\ reg[RBX] = LLMin /\ reg = pre.reg
    /\ acc.kind = "none" /\ Len(out) = 3

\* the words of prog1 in memory: 717360 = 0xAF230 at 0, 16914579456 =
\* 0x3F0300000 at 8, 6922050288173973504 = 0x6010101000000000 at 16, 32 at 24
S1Mem == (0 :> <<62000, 10, 0, 0>>) @@ (8 :> <<0, 61488, 3, 0>>)
         @@ (16 :> <<0, 0, 4112, 24592>>) @@ (24 :> <<32, 0, 0, 0>>)

\* C20: on the image of prog1 (scenario S1) the run writes exactly 7 records;
\* the first is PC = 10, STAT = 1, ZF = 1, SF = 0, OF = 0, rdx = 10, every
\* other register 0 and MEM = {0: 717360, 8: 16914579456,
\* 16: 6922050288173973504, 24: 32}; the record after the third nop has
\* rax = 3, rdx = 10, PC = 0x17; the record after the addq has rax = 13,
\* ZF = SF = OF = 0, PC = 0x19; the last record has STAT = 2 and PC = 0x19.
C20_Prog1 ==
    image = S1Image =>
        /\ Len(out) <= 7
        /\ (pos = "done" => Len(out) = 7)
        /\ (Len(out) = 7 => pos \in {"check", "loop", "done"})
        /\ Len(out) >= 1 =>
              out[1] = [PC |-> LL(10), STAT |-> AOK, ZF |-> TRUE, SF |-> FALSE, OF |-> FALSE,
                        REG |-> [r \in 0..14 |-> IF r = RDX THEN LL(10) ELSE LLZero],
                        MEM |-> S1Mem]
        /\ Len(out) >= 5 =>
              /\ out[5].REG[RAX] = LL(3) /\ out[5].REG[RDX] = LL(10)
              /\ out[5].PC = LL(23) /\ out[5].STAT = AOK
        /\ Len(out) >= 6 =>
              /\ out[6].REG[RAX] = LL(13) /\ out[6].REG[RDX] = LL(10)
              /\ ~out[6].ZF /\ ~out[6].SF /\ ~out[6].OF
              /\ out[6].PC = LL(25) /\ out[6].STAT = AOK
        /\ Len(out) >= 7 => (out[7].STAT = HLT /\ out[7].PC = LL(25))

C20_Witness ==
    /\ image = S1Image /\ pos = "done" /\ Len(out) = 7 /\ stat = HLT
    /\ out[1].MEM = S1Mem /\ out[7].MEM = S1Mem
    /\ out[7].REG[RAX] = LL(13) /\ out[7].PC = LL(25)

\* C21: the MEM of the record of a step has exactly the keys a in
\* {0, 8, ..., 0xFFF8} whose little-endian word in memory after the step is
\* not 0, each with that word as its value.  (A word is not 0 exactly when one
\* of its bytes is not 0, so "every such word is a key" is stated for the
\* aligned window of every byte that is not 0; the bytes that are not 0 are
\* the domain of memory.)
C21_MemField ==
    StepEmitted =>
        LET M == LastRecord.MEM
        IN  /\ \A k \in DOMAIN M :
                  /\ k \in 0..(MEM_SIZE - 8) /\ k % 8 = 0
                  /\ M[k] = LLFromBytes([i \in 0..7 |-> MemGet(memory, k + i)])
                  /\ M[k] # LLZero
            /\ \A a \in DOMAIN memory :
                  memory[a] # 0 => (a \in 0..(MEM_SIZE - 1) /\ (a - (a % 8)) \in DOMAIN M)

C21_Witness ==
    /\ StepEmitted /\ stat = AOK /\ icode = RMMOVQ /\ acc.addr = LL(259)
    /\ {256, 264} \subseteq DOMAIN LastRecord.MEM
    /\ LastRecord.MEM[256] = <<0, 256, 770, 1284>>
    /\ LastRecord.MEM[264] = <<1798, 136, 0, 0>>
    /\ 248 \notin DOMAIN LastRecord.MEM

\* the PC is outside [0, 0x10000)
PCOutside(pc) == pc[2] # 0 \/ pc[3] # 0 \/ pc[4] # 0 \/ pc[1] >= MEM_SIZE

\* C22 as stated: every run leaves its loop.  The loop is deterministic, so a
\* run that leaves it is never at the head of the loop, about to fetch, with
\* all of PC, memory, registers, flags, temporaries and cache as they were at
\* the head of the loop one iteration before.
C22_AlwaysTerminates ==
    ~ (/\ pos = "loop" /\ Len(out) >= 2 /\ stat = AOK /\ ~PCOutside(PC)
       /\ PC = pre.PC /\ memory = pre.memory /\ reg = pre.reg
       /\ zf = pre.zf /\ sf = pre.sf /\ of = pre.of
       /\ tempVars = pre.temps /\ cacheVars = pre.cache)

\* C22 amended: run() leaves its loop exactly after a Fetch fault, at the
\* head of the loop when STAT is not AOK, or after a record whose PC is outside
\* [0, 0x10000); after any other step it goes on with the next fetch.
C22_LeavesLoopExactlyOnStop ==
    [][build' = build =>
          /\ (pos = "fault") => pos' = "done"
          /\ (pos = "loop" /\ stat # AOK) => pos' = "done"
          /\ (pos = "check") => pos' = IF PCOutside(PC) THEN "done" ELSE "loop"
          /\ (pos # "done" /\ pos' = "done") =>
                \/ pos = "fault" /\ stat \in {ADR, INS}
                \/ pos = "loop" /\ stat \in {HLT, ADR}
                \/ pos = "check" /\ PCOutside(PC)
          /\ (pos = "loop" /\ pos' # "done") => (stat = AOK /\ ~PCOutside(PC))]_vars

C22_Witness ==
    /\ pos = "done" /\ stat = HLT /\ icode = HALT /\ lastCall.valid
    /\ Len(out) = 4 /\ LastRecord.PC = LL(19) /\ build = "cached"

\* C23: every call of fetch() is followed by exactly one record before the
\* next: while instruction N is processed N - 1 records have been written, and
\* once its record is written there are N; record N shows PC, STAT, the flags
\* and the registers as they are after instruction N, and when its STAT is AOK
\* its PC is the address instruction N + 1 is fetched from.
C23_OneRecordPerInstruction ==
    /\ pos \in {"decode", "execute", "memory", "write_back", "pc_update", "print",
                 "fault", "crashed"} =>
          /\ Len(out) = nfetch - 1
          /\ Len(out) > 0 => (LastRecord.STAT = AOK /\ LastRecord.PC = pre.PC)
    /\ pos \in {"check", "loop", "done"} =>
          /\ Len(out) = nfetch
          /\ nfetch > 0 =>
                /\ LastRecord.PC = PC /\ LastRecord.STAT = stat
                /\ LastRecord.ZF = zf /\ LastRecord.SF = sf /\ LastRecord.OF = of
                /\ LastRecord.REG = reg
                /\ (fstat = AOK /\ stat = AOK) =>
                      PC = IF icode \in {CALL, JXX} /\ (icode = CALL \/ cnd) THEN valC
                           ELSE IF icode = RET THEN valM ELSE valP
    /\ pos = "load" => (Len(out) = 0 /\ nfetch = 0)

C23_Witness ==
    /\ pos = "check" /\ nfetch = 2 /\ Len(out) = 2 /\ stat = AOK /\ icode = CALL
    /\ LastRecord.PC = LL(64) /\ PC = LL(64) /\ pre.PC = LL(10) /\ out[1].PC = LL(10)

\* C24: after a step that ends with STAT = AOK and is not a taken jXX, a call
\* or a ret, PC (in the state and in the record) is the PC of the instruction
\* + 1, + 1 for rrmovq, irmovq, rmmovq, mrmovq, OPq, pushq, popq, + 8 for
\* irmovq, rmmovq, mrmovq, jXX: 1 for nop, 2 for rrmovq/OPq/pushq/popq, 9 for
\* an untaken jXX, 10 for irmovq/rmmovq/mrmovq.
C24_SequentialPC ==
    (/\ StepEmitted /\ fstat = AOK /\ stat = AOK
     /\ icode \notin {CALL, RET} /\ ~(icode = JXX /\ cnd)) =>
        LET len == CASE icode = NOP -> 1
                     [] icode \in {RRMOVQ, OPQ, PUSHQ, POPQ} -> 2
                     [] icode = JXX -> 9
                     [] icode \in {IRMOVQ, RMMOVQ, MRMOVQ} -> 10
        IN  /\ PC = LLAdd(pre.PC, LL(len))
            /\ LastRecord.PC = LLAdd(pre.PC, LL(len))
            /\ len = 1 + (IF icode \in {RRMOVQ, IRMOVQ, RMMOVQ, MRMOVQ, OPQ, PUSHQ, POPQ}
                          THEN 1 ELSE 0)
                        + (IF icode \in {IRMOVQ, RMMOVQ, MRMOVQ, JXX, CALL} THEN 8 ELSE 0)

C24_Witness ==
    /\ StepEmitted /\ fstat = AOK /\ stat = AOK /\ icode = JXX /\ ifun = 3 /\ ~cnd
    /\ pre.PC = LL(22) /\ PC = LL(31) /\ LastRecord.PC = LL(31)

\* C25: before the first fetch of a run PC = 0, the 15 registers are 0,
\* STAT = AOK, ZF = 1, SF = 0, OF = 0; and every record written before the
\* first step whose icode is OPQ shows ZF = 1, SF = 0, OF = 0.
C25_InitialState ==
    /\ nfetch = 0 =>
          /\ PC = LLZero /\ \A r \in 0..14 : reg[r] = LLZero
          /\ DOMAIN reg = 0..14
          /\ stat = AOK /\ zf /\ ~sf /\ ~of
          /\ out = <<>>
    /\ \A k \in 1..Len(out) :
          (\A j \in 1..k : icodes[j] # OPQ) => (out[k].ZF /\ ~out[k].SF /\ ~out[k].OF)

C25_Witness ==
    /\ pos = "check" /\ Len(out) = 5 /\ \A j \in 1..5 : icodes[j] # OPQ
    /\ out[5].ZF /\ ~out[5].SF /\ out[5].REG[RAX] = LL(3) /\ out[5].REG[RDX] = LL(10)
    /\ MemGet(memory, LLInt(PC)) = OPQ * 16

\* b + a over the integers is outside [-2^63, 2^63): a and b have the same
\* sign and the wrapped sum has the other one
AddOverflows(a, b) == LLIsNeg(a) = LLIsNeg(b) /\ LLIsNeg(LLAdd(b, a)) # LLIsNeg(b)

\* b - a over the integers is outside [-2^63, 2^63): a and b have different
\* signs and the wrapped difference has not the sign of b
SubOverflows(a, b) == LLIsNeg(a) # LLIsNeg(b) /\ LLIsNeg(LLSub(b, a)) # LLIsNeg(b)

\* C26: after an addq OF = 1 exactly when the integer valB + valA is outside
\* [-2^63, 2^63), after a subq exactly when the integer valB - valA is.
C26_OFIsSignedOverflow ==
    (/\ StepEmitted /\ fstat = AOK /\ icode = OPQ /\ ifun \in {0, 1}
     /\ rA \in 0..14 /\ rB \in 0..14) =>
        LastRecord.OF = IF ifun = 0 THEN AddOverflows(pre.reg[rA], pre.reg[rB])
                        ELSE SubOverflows(pre.reg[rA], pre.reg[rB])

\* C27: whenever run() is about to call fetch() (at the head of the loop with
\* STAT = AOK) 0 <= PC < 0x10000, so is the PC every fetched step began with,
\* and Fetch sets ADR only through the read of the constant of an instruction
\* that reaches past the end of memory, never through its test of the PC.
C27_PCInRangeAtFetch ==
    /\ (pos = "loop" /\ stat = AOK) => ~PCOutside(PC)
    /\ nfetch > 0 => ~PCOutside(pre.PC)
    /\ (nfetch > 0 /\ fstat = ADR) =>
          /\ icode \in {IRMOVQ, RMMOVQ, MRMOVQ, JXX, CALL}
          /\ icode = MemGet(pre.memory, LLInt(pre.PC)) \div 16
          /\ LLInt(pre.PC) + (IF icode \in {JXX, CALL} THEN 9 ELSE 10) > MEM_SIZE

C27_Witness ==
    /\ pos = "done" /\ stat = AOK /\ PCOutside(PC) /\ LLIsNeg(PC) /\ icode = RET
    /\ nfetch = 4 /\ ~PCOutside(pre.PC)

\* rg with register r set to v, unchanged when r is the sentinel 15
WithReg(rg, r, v) == IF r \in 0..14 THEN [rg EXCEPT ![r] = v] ELSE rg

\* C28: when the Memory phase sets STAT = ADR, Write-back still makes its
\* writes: a faulting mrmovq writes 0 to REG[rA]; a faulting popq writes
\* RSP + 8 to RSP and then 0 to REG[rA]; a faulting ret writes RSP + 8 to RSP; a
\* faulting pushq or call writes RSP - 8 to RSP; a faulting rmmovq writes no
\* register; the PC and memory stay as they were.
C28_WriteBackOnFault ==
    (StepEmitted /\ fstat = AOK /\ stat = ADR) =>
        /\ icode \in {RMMOVQ, MRMOVQ, PUSHQ, POPQ, CALL, RET}
        /\ PC = pre.PC /\ memory = pre.memory
        /\ icode \in {MRMOVQ, POPQ, RET} => valM = LLZero
        /\ reg = CASE icode = MRMOVQ -> WithReg(pre.reg, rA, LLZero)
                    [] icode = POPQ ->
                         WithReg([pre.reg EXCEPT ![RSP] = LLAdd(pre.reg[RSP], LL(8))],
                                 rA, LLZero)
                    [] icode = RET -> [pre.reg EXCEPT ![RSP] = LLAdd(pre.reg[RSP], LL(8))]
                    [] icode \in {PUSHQ, CALL} ->
                         [pre.reg EXCEPT ![RSP] = LLSub(pre.reg[RSP], LL(8))]
                    [] OTHER -> pre.reg
        /\ LastRecord.REG = reg /\ LastRecord.PC = pre.PC /\ LastRecord.STAT = ADR

C28_Witness ==
    /\ StepEmitted /\ fstat = AOK /\ stat = ADR /\ icode = POPQ /\ rA = RAX
    /\ pre.reg[RAX] = LL(4660) /\ reg[RAX] = LLZero
    /\ pre.reg[RSP] = LL(MEM_SIZE - 7) /\ reg[RSP] = LL(MEM_SIZE + 1)
    /\ PC = pre.PC

\* the instructions whose Execute phase assigns valE
SetsValE(ic, fn) ==
    \/ ic \in {RRMOVQ, IRMOVQ, RMMOVQ, MRMOVQ, CALL, RET, PUSHQ, POPQ}
    \/ ic = OPQ /\ fn \in 0..3

\* valE as the step began
StaleValE == pre.temps[9]

\* C29: an OPq whose function code is in 4..15 leaves STAT = AOK and valE as it
\* was, writes that value to REG[rB], sets ZF and SF from it and clears OF, and
\* goes on to the next instruction; valE is as it was after every step whose
\* instruction does not assign it, and is 0 before the first instruction.
C29_IllegalOpqWritesStaleValE ==
    /\ (pos \in {"load", "loop"} /\ nfetch = 0) => valE = LLZero
    /\ (StepEmitted /\ fstat = AOK /\ ~SetsValE(icode, ifun)) => valE = StaleValE
    /\ (StepEmitted /\ fstat = AOK /\ icode = OPQ /\ ifun \in 4..15) =>
          /\ stat = AOK
          /\ reg = WithReg(pre.reg, rB, StaleValE)
          /\ zf = LLIsZero(StaleValE) /\ sf = LLIsNeg(StaleValE) /\ of = FALSE
          /\ PC = LLAdd(pre.PC, LL(2)) /\ memory = pre.memory
          /\ LastRecord.REG = reg /\ LastRecord.STAT = AOK
          /\ LastRecord.ZF = zf /\ LastRecord.SF = sf /\ LastRecord.OF = FALSE

C29_Witness ==
    /\ StepEmitted /\ fstat = AOK /\ icode = OPQ /\ ifun = 9 /\ rB = RBX /\ nfetch = 4
    /\ pre.reg[RBX] = LL(1) /\ reg[RBX] = LLMin /\ reg[RAX] = LLMin
    /\ pre.zf /\ ~zf /\ sf /\ ~of /\ stat = AOK

\* m2 is m with the 8 bytes at [a, a + 8) replaced by the little-endian bytes
\* of v, every other byte as in m
StoredAt(m, m2, a, v) ==
    \A x \in DOMAIN m \cup DOMAIN m2 \cup (a..(a + 7)) :
        MemGet(m2, x) = IF x \in a..(a + 7) THEN LLByte(v, x - a) ELSE MemGet(m, x)

\* C30: once the image is loaded, a step of run() changes memory only in the
\* Memory phase of an rmmovq, pushq or call with 0 <= valE <= 0x10000 - 8 that
\* raises no fault, and then exactly to the memory with the little-endian bytes
\* of valA (valP for call) at [valE, valE + 8); such a store is always made; a
\* Memory phase that sets STAT = ADR, and every other phase, changes no byte.
C30_MemoryFrame ==
    [][(pos # "load" /\ build' = build) =>
          /\ memory' # memory =>
                /\ pos = "memory" /\ pos' = "write_back"
                /\ icode \in {RMMOVQ, PUSHQ, CALL}
                /\ stat = AOK /\ stat' = AOK
                /\ ~AddrOutOfRange(valE)
          /\ (pos = "memory" /\ icode \in {RMMOVQ, PUSHQ, CALL} /\ ~AddrOutOfRange(valE)) =>
                /\ stat' = AOK /\ pos' = "write_back"
                /\ StoredAt(memory, memory', LLInt(valE), IF icode = CALL THEN valP ELSE valA)
          /\ (pos = "memory" /\ stat' = ADR) => memory' = memory
      ]_vars

C30_Witness ==
    /\ build = "cached" /\ pos = "write_back" /\ icode = CALL /\ stat = AOK
    /\ memory # pre.memory
    /\ ~AddrOutOfRange(valE) /\ WordAt(memory, LLInt(valE)) = valP
    /\ WordAt(pre.memory, LLInt(valE)) # valP
    /\ StoredAt(pre.memory, memory, LLInt(valE), valP)

\* C31: a pushq of %rsp leaves RSP at old RSP - 8 and hands writeLong the
\* address old RSP - 8 and the value RSP had when the instruction began; when
\* that address lies in [0, 0x10000 - 8] the step keeps STAT = AOK and the
\* word at old RSP - 8 is the old RSP, every other byte as before; when the
\* store faults no byte changes.
C31_PushRspStoresOldRsp ==
    (StepEmitted /\ fstat = AOK /\ icode = PUSHQ /\ rA = RSP) =>
        LET old  == pre.reg[RSP]
            new  == LLSub(old, LL(8))
        IN  /\ reg = [pre.reg EXCEPT ![RSP] = new]
            /\ LastRecord.REG[RSP] = new
            /\ lastStore.step = Len(out) /\ lastStore.addr = new /\ lastStore.val = old
            /\ ~AddrOutOfRange(new) =>
                  /\ stat = AOK
                  /\ StoredAt(pre.memory, memory, LLInt(new), old)
                  /\ WordAt(memory, LLInt(new)) = old
            /\ stat = ADR => (AddrOutOfRange(new) /\ memory = pre.memory)

C31_Witness ==
    /\ StepEmitted /\ fstat = AOK /\ icode = PUSHQ /\ rA = RSP /\ stat = AOK
    /\ pre.reg[RSP] = LL(1024) /\ reg[RSP] = LL(1016)
    /\ WordAt(pre.memory, 1016) = LLZero /\ WordAt(memory, 1016) = LL(1024)
    /\ LastRecord.MEM[1016] = LL(1024)

\* the addresses a valid cache line of set s stands for
LineAddrs(s) ==
    {cache[s].tag * (2 ^ (BLOCK_BITS + 4)) + s * (2 ^ BLOCK_BITS) + i : i \in 0..(BLOCK_SIZE - 1)}

\* the Memory phase has made no access outside the vector in this run
MemoryInRange == \A e \in oob : e[2] # "memory"

\* C32: in the cache-enabled build, as long as every readLong/writeLong so far
\* was inside [0, 0x10000), every valid cache line of set s with tag t lies
\* inside memory and has block[i] = memory[t * 512 + s * 32 + i] for i in
\* 0..31; and readByteCached returns memory[addr] for every address of a
\* cached line, of a non-zero byte, and for the first and last address.
C32_CacheCoherent ==
    (build = "cached" /\ MemoryInRange) =>
        /\ \A s \in 0..(CACHE_SETS - 1) :
              cache[s].valid =>
                /\ cache[s].tag \in 0..((MEM_SIZE \div (2 ^ (BLOCK_BITS + 4))) - 1)
                /\ \A i \in 0..(BLOCK_SIZE - 1) :
                      cache[s].block[i] =
                          MemGet(memory, cache[s].tag * (2 ^ (BLOCK_BITS + 4))
                                         + s * (2 ^ BLOCK_BITS) + i)
        /\ \A addr \in (UNION {LineAddrs(s) : s \in {x \in 0..(CACHE_SETS - 1) : cache[x].valid}})
                        \cup (DOMAIN memory \cap (0..(MEM_SIZE - 1))) \cup {0, MEM_SIZE - 1} :
              readByteCached(memory,
                             [cache |-> cache, hits |-> cache_hits, misses |-> cache_misses],
                             addr).byte = MemGet(memory, addr)

C32_Witness ==
    /\ build = "cached" /\ MemoryInRange /\ StepEmitted /\ icode = MRMOVQ /\ nfetch = 5
    /\ stat = AOK /\ reg[RCX] = <<513, 1027, 1541, 34823>> /\ reg[RBX] = LLZero
    /\ cache[8].valid /\ cache[8].tag = 0 /\ cache[8].block[27] = 1
    /\ cache[9].valid /\ cache[9].tag = 0 /\ cache[9].block[2] = 136
    /\ WordAt(memory, 283 + 512) = <<513, 1027, 1541, 34823>>
    /\ cache_hits = 26 /\ cache_misses = 6

====
